---- MODULE Spec2Model ----
(***************************************************************************)
(* Model of the protocol translation layer of copilot-api.                 *)
(*                                                                         *)
(* The streaming transcoder convertOpenAIStreamToAnthropic                 *)
(* (src/src/services/anthropic/streaming.ts) is an async generator: it     *)
(* pulls one chunk at a time from the upstream sequence and yields framed  *)
(* SSE events.  Its local variables are the VARIABLES below; `out` is the  *)
(* sequence of events it has yielded, `consumed` the chunks it has pulled. *)
(*                                                                         *)
(* The code around the generator (src/unnamed/part_002) has variables of   *)
(* its own: the handler's loop that writes the events to the transport.    *)
(* `other` is a second invocation of the generator, for a concurrent       *)
(* request; openaiResponse and anthropicResponse belong to the response    *)
(* translator convertOpenAIToAnthropicResponse; anthropicRequest,          *)
(* openaiMessages, cpc and converted to the request converter              *)
(* convertAnthropicToOpenAIMessages; mpc, body, openaiPayload, reply and   *)
(* estimatedInputTokens to the request handler handleAnthropicMessages     *)
(* up to its answer; refreshIntervalId, refreshFailureCount, copilotToken,  *)
(* timers, setups and callbacks to the token refresh setupCopilotToken     *)
(* (src/unnamed/part_001).  They keep their idle                           *)
(* values in a specification that is about one invocation of the generator *)
(* alone.                                                                  *)
(***************************************************************************)
EXTENDS Integers, Sequences, FiniteSets, TLC

VARIABLES
    pc,                                 \* position of the generator
    nextAnthropicBlockIdx,              \* streaming.ts:24
    textBlockAnthropicIdx,              \* streaming.ts:25 (NullIdx models null)
    openaiToolIdxToAnthropicBlockIdx,   \* streaming.ts:26
    toolStates,                         \* streaming.ts:27
    sentToolBlockStarts,                \* streaming.ts:32 (a Set: insertion order kept)
    outputTokenCount,                   \* streaming.ts:34
    finalAnthropicStopReason,           \* streaming.ts:35
    out,                                \* events yielded so far, in order
    consumed,                           \* chunks pulled from openaiStream, in order
    loopExit,                           \* how the for-await loop was left
    hpc,                                \* part_002:112-119, position of the handler's loop
    inflight,                           \* part_002:118, event handed to stream.write, not yet written
    written,                            \* events whose write has completed, in order
    other,                              \* a second invocation of the generator: its position,
                                        \* locals, yielded events and pulled chunks
    openaiResponse,                     \* part_002:106, the backend's completed response
    anthropicResponse,                  \* part_002:126, the response translated from it
    anthropicRequest,                   \* part_002:41, the system prompt and the messages
    openaiMessages,                     \* part_002:298, the turns pushed so far
    cpc,                                \* position of convertAnthropicToOpenAIMessages
    converted,                          \* part_002:319, messages the loop has gone through
    mpc,                                \* position of handleAnthropicMessages (part_002:35-170)
    body,                               \* part_002:41, the body of the HTTP request
    openaiPayload,                      \* part_002:66, the payload for the backend
    reply,                              \* the HTTP response the handler returns
    estimatedInputTokens,               \* part_002:110, streaming.ts:19
    refreshIntervalId,                  \* part_001:31
    refreshFailureCount,                \* part_001:32
    copilotToken,                       \* state.copilotToken (part_001:43, 53)
    timers,                             \* the intervals of the runtime that are active
    setups,                             \* the calls of setupCopilotToken, in order
    callbacks                           \* the runs of the interval callback, in order

\* The variables of the handler's loop, of the request converter and of the
\* translators together.
handler == <<hpc, inflight, written>>
converter == <<anthropicRequest, openaiMessages, cpc, converted>>
translators == <<openaiResponse, anthropicResponse, converter>>

\* The variables of handleAnthropicMessages before it has a response.
endpoint == <<mpc, body, openaiPayload, reply, estimatedInputTokens>>

\* The variables of the token refresh (part_001:30-73).
refresher == <<refreshIntervalId, refreshFailureCount, copilotToken, timers,
               setups, callbacks>>

\* The variables of the code around the generator.
surroundings == <<handler, other, translators, endpoint, refresher>>

vars == <<pc, nextAnthropicBlockIdx, textBlockAnthropicIdx,
          openaiToolIdxToAnthropicBlockIdx, toolStates, sentToolBlockStarts,
          outputTokenCount, finalAnthropicStopReason, out, consumed, loopExit,
          surroundings>>

(***************************************************************************)
(* Bounds of the model.                                                    *)
(***************************************************************************)
\* Largest number of chunks the upstream delivers before it ends or fails.
MaxChunks == 3
\* Largest number of calls of setupCopilotToken, and of runs of the
\* interval callback.
MaxSetups == 2
MaxTicks == 3

(***************************************************************************)
(* JavaScript values.                                                      *)
(***************************************************************************)
\* The value `undefined` (an absent property) and the value `null`.
Undefined == "<undefined>"
Null == "<null>"
\* A function object, such as the members every object literal inherits.
FunctionValue == "<function>"
\* textBlockAnthropicIdx === null
NullIdx == -1

\* JavaScript truthiness of a string-or-absent value.
Truthy(v) == v # Undefined /\ v # Null /\ v # ""

\* String.prototype.startsWith
StartsWith(s, prefix) ==
    Len(s) >= Len(prefix) /\ SubSeq(s, 1, Len(prefix)) = prefix

\* JSON.stringify of a property value: a function-valued property is omitted.
JSONStringifyValue(v) == IF v = FunctionValue THEN Undefined ELSE v

\* The request id passed to the transcoder.
requestId == "req"

\* `tool_ph_${requestId}_${currentAnthropicToolBlockIdx}`
PlaceholderId(blockIdx) ==
    "tool_ph_" \o requestId \o "_" \o ToString(blockIdx)

\* Line 268: the characters one estimated token stands for.
CharsPerToken == 4

\* Variant of estimateTokenCount that rounds down.
estimateTokenCount_RoundedDown(text) == Len(text) \div CharsPerToken

\* Math.ceil(text.length / 4)
estimateTokenCount(text) == (Len(text) + (CharsPerToken - 1)) \div CharsPerToken

(***************************************************************************)
(* Upstream chunks.                                                        *)
(*                                                                         *)
(* A parsed chunk (ChatCompletionChunk) is a record                        *)
(*   [isNull, has_choices, choices], each choice                           *)
(*   [has_delta, delta |-> [content, has_tool_calls, tool_calls],          *)
(*    finish_reason],                                                      *)
(* each tool-call delta [isNull, index, id, function |-> [defined, name,   *)
(* arguments]].  A JSON text is [valid, value]: JSON.parse fails on an     *)
(* invalid text and returns `value` on a valid one.  A physical chunk is   *)
(*   [shape |-> "string", sse, text]   a string, with or without "data: "  *)
(*   [shape |-> "envelope", data, ...] an object with a `data` property    *)
(*   [shape |-> "object", value]       anything else                       *)
(* written with the same fields in every shape.                            *)
(***************************************************************************)
Function(name, arguments) ==
    [defined |-> TRUE, name |-> name, arguments |-> arguments]
NoFunction == [defined |-> FALSE, name |-> Undefined, arguments |-> Undefined]

ToolDelta(index, id, function) ==
    [isNull |-> FALSE, index |-> index, id |-> id, function |-> function]
NullToolDelta ==
    [isNull |-> TRUE, index |-> 0, id |-> Undefined, function |-> NoFunction]

Delta(content, tool_calls) ==
    [content |-> content, has_tool_calls |-> TRUE, tool_calls |-> tool_calls]
TextDelta(content) ==
    [content |-> content, has_tool_calls |-> FALSE, tool_calls |-> <<>>]

Choice(delta, finish_reason) ==
    [has_delta |-> TRUE, delta |-> delta, finish_reason |-> finish_reason]
ChoiceWithoutDelta(finish_reason) ==
    [has_delta |-> FALSE, delta |-> TextDelta(Undefined),
     finish_reason |-> finish_reason]

Parsed(choice) == [isNull |-> FALSE, has_choices |-> TRUE, choices |-> <<choice>>]
EmptyChoices == [isNull |-> FALSE, has_choices |-> TRUE, choices |-> <<>>]
NoChoices == [isNull |-> FALSE, has_choices |-> FALSE, choices |-> <<>>]
NullValue == [isNull |-> TRUE, has_choices |-> FALSE, choices |-> <<>>]

JsonText(value) == [valid |-> TRUE, value |-> value]
InvalidJson == [valid |-> FALSE, value |-> NullValue]

StringChunk(sse, text) ==
    [shape |-> "string", sse |-> sse, data |-> "n/a", text |-> text,
     value |-> NullValue]
EnvelopeString(text) ==
    [shape |-> "envelope", sse |-> FALSE, data |-> "string", text |-> text,
     value |-> NullValue]
EnvelopeObject(value) ==
    [shape |-> "envelope", sse |-> FALSE, data |-> "object", text |-> InvalidJson,
     value |-> value]
EnvelopeFalsy ==
    [shape |-> "envelope", sse |-> FALSE, data |-> "falsy", text |-> InvalidJson,
     value |-> NullValue]
ObjectChunk(value) ==
    [shape |-> "object", sse |-> FALSE, data |-> "n/a", text |-> InvalidJson,
     value |-> value]

\* JSON.parse: [ok |-> FALSE] stands for the SyntaxError it throws.
JSONParse(text) ==
    IF text.valid THEN [ok |-> TRUE, value |-> text.value]
    ELSE [ok |-> FALSE, value |-> NullValue]

\* Lines 68-92: the parsedChunk of a chunk, or ok = FALSE when the chunk is
\* skipped with a warning.
ParseChunk(chunk) ==
    IF chunk.shape = "string"
    THEN \* chunk.match(/^data: (.+)$/): either way the JSON text is parsed
         IF chunk.sse THEN JSONParse(chunk.text) ELSE JSONParse(chunk.text)
    ELSE IF chunk.shape = "envelope" /\ chunk.data # "falsy"
    THEN IF chunk.data = "string" THEN JSONParse(chunk.text)
         ELSE [ok |-> TRUE, value |-> chunk.value]
    ELSE IF chunk.shape = "envelope"
    THEN \* chunk.data is falsy: the envelope itself is taken as the chunk
         [ok |-> TRUE, value |-> NoChoices]
    ELSE [ok |-> TRUE, value |-> chunk.value]

(***************************************************************************)
(* Events.  Every event is a record with the same fields; the fields an    *)
(* event type does not carry hold Undefined (NullIdx for index).           *)
(***************************************************************************)
\* A value in the place of a token count: a number, the object of two
\* counts that getTokenCount returns (part_000:86-89), or nothing.
Number(n) == [type |-> "number", value |-> n, input |-> 0, output |-> 0]
TokenCounts(input, output) ==
    [type |-> "object", value |-> 0, input |-> input, output |-> output]
NoTokens == [type |-> "undefined", value |-> 0, input |-> 0, output |-> 0]

Event(type) ==
    [type |-> type, index |-> NullIdx, block |-> Undefined, id |-> Undefined,
     name |-> Undefined, text |-> Undefined, stop_reason |-> Undefined,
     input_tokens |-> NoTokens, output_tokens |-> 0]

\* Lines 47-60: usage.input_tokens is the parameter estimatedInputTokens.
MessageStart == [Event("message_start") EXCEPT !.input_tokens = estimatedInputTokens]
Ping == Event("ping")
TextBlockStart(idx) ==
    [Event("content_block_start") EXCEPT !.index = idx, !.block = "text", !.text = ""]
TextDeltaEvent(idx, text) ==
    [Event("content_block_delta") EXCEPT
        !.index = idx, !.block = "text_delta", !.text = text]
ToolBlockStart(idx, id, name) ==
    [Event("content_block_start") EXCEPT
        !.index = idx, !.block = "tool_use", !.id = id, !.name = name]
ArgsDeltaEvent(idx, partial_json) ==
    [Event("content_block_delta") EXCEPT
        !.index = idx, !.block = "input_json_delta", !.text = partial_json]
BlockStop(idx) == [Event("content_block_stop") EXCEPT !.index = idx]
MessageDelta(stop_reason, tokens) ==
    [Event("message_delta") EXCEPT
        !.stop_reason = JSONStringifyValue(stop_reason), !.output_tokens = tokens]
MessageStop == Event("message_stop")
ErrorEvent == Event("error")

(***************************************************************************)
(* One resumption of the generator works on a record `s` of its locals,    *)
(* plus the events yielded during the step (`yielded`), whether an         *)
(* exception was thrown (`threw`) and whether the loop was left by `break` *)
(* (`broke`).                                                              *)
(***************************************************************************)
Locals ==
    [nextAnthropicBlockIdx |-> nextAnthropicBlockIdx,
     textBlockAnthropicIdx |-> textBlockAnthropicIdx,
     openaiToolIdxToAnthropicBlockIdx |-> openaiToolIdxToAnthropicBlockIdx,
     toolStates |-> toolStates,
     sentToolBlockStarts |-> sentToolBlockStarts,
     outputTokenCount |-> outputTokenCount,
     finalAnthropicStopReason |-> finalAnthropicStopReason,
     yielded |-> <<>>,
     threw |-> FALSE,
     broke |-> FALSE]

\* A TypeError raised while a parsed chunk is processed.
Throw(s) == [s EXCEPT !.threw = TRUE]

Yield(s, event) == [s EXCEPT !.yielded = Append(@, event)]

\* Set.prototype.has on sentToolBlockStarts
Has(sent, blockIdx) == \E i \in 1..Len(sent) : sent[i] = blockIdx

\* Variant of HandleText that opens a text block for every text delta.
HandleText_AlwaysOpens(s, delta) ==
    IF ~Truthy(delta.content) THEN s
    ELSE
      LET counted == [s EXCEPT !.outputTokenCount = @ + estimateTokenCount(delta.content)]
          opened ==
            Yield([counted EXCEPT
                      !.textBlockAnthropicIdx = counted.nextAnthropicBlockIdx,
                      !.nextAnthropicBlockIdx = @ + 1],
                  TextBlockStart(counted.nextAnthropicBlockIdx))
      IN  Yield(opened, TextDeltaEvent(opened.textBlockAnthropicIdx, delta.content))

\* Lines 101-123: the text content of a delta.
HandleText(s, delta) ==
    IF ~Truthy(delta.content) THEN s
    ELSE
      LET counted == [s EXCEPT !.outputTokenCount = @ + estimateTokenCount(delta.content)]
          opened ==
            IF counted.textBlockAnthropicIdx = NullIdx
            THEN Yield([counted EXCEPT
                           !.textBlockAnthropicIdx = counted.nextAnthropicBlockIdx,
                           !.nextAnthropicBlockIdx = @ + 1],
                       TextBlockStart(counted.nextAnthropicBlockIdx))
            ELSE counted
      IN  Yield(opened, TextDeltaEvent(opened.textBlockAnthropicIdx, delta.content))

\* Variant of AllocateToolBlock that does not advance the block counter.
AllocateToolBlock_CounterNotAdvanced(s, toolDelta) ==
    IF toolDelta.index \in DOMAIN s.openaiToolIdxToAnthropicBlockIdx THEN s
    ELSE
      LET currentAnthropicToolBlockIdx == s.nextAnthropicBlockIdx
      IN  [s EXCEPT
             !.openaiToolIdxToAnthropicBlockIdx =
                 @ @@ (toolDelta.index :> currentAnthropicToolBlockIdx),
             !.toolStates =
                 (currentAnthropicToolBlockIdx :>
                         [id |-> IF Truthy(toolDelta.id) THEN toolDelta.id
                                 ELSE PlaceholderId(currentAnthropicToolBlockIdx),
                          name |-> "",
                          argumentsBuffer |-> ""]) @@ @]

\* Lines 130-140: first sight of a source tool index.
AllocateToolBlock(s, toolDelta) ==
    IF toolDelta.index \in DOMAIN s.openaiToolIdxToAnthropicBlockIdx THEN s
    ELSE
      LET currentAnthropicToolBlockIdx == s.nextAnthropicBlockIdx
      IN  [s EXCEPT
             !.nextAnthropicBlockIdx = @ + 1,
             !.openaiToolIdxToAnthropicBlockIdx =
                 @ @@ (toolDelta.index :> currentAnthropicToolBlockIdx),
             !.toolStates =
                 @ @@ (currentAnthropicToolBlockIdx :>
                         [id |-> IF Truthy(toolDelta.id) THEN toolDelta.id
                                 ELSE PlaceholderId(currentAnthropicToolBlockIdx),
                          name |-> "",
                          argumentsBuffer |-> ""])]

\* Lines 145-158: id, name and arguments of a tool delta folded into its state.
UpdateToolState(toolState, toolDelta) ==
    LET withId ==
          IF Truthy(toolDelta.id) /\ StartsWith(toolState.id, "tool_ph_")
          THEN [toolState EXCEPT !.id = toolDelta.id] ELSE toolState
        withName ==
          IF toolDelta.function.defined /\ Truthy(toolDelta.function.name)
          THEN [withId EXCEPT !.name = toolDelta.function.name] ELSE withId
    IN  IF toolDelta.function.defined /\ Truthy(toolDelta.function.arguments)
        THEN [withName EXCEPT !.argumentsBuffer = @ \o toolDelta.function.arguments]
        ELSE withName

\* Variant of CanStartToolBlock that does not wait for a concrete id.
CanStartToolBlock_WithPlaceholderId(sent, blockIdx, toolState) ==
    /\ ~Has(sent, blockIdx)
    /\ Truthy(toolState.id)
    /\ Truthy(toolState.name)

\* Variant of CanStartToolBlock that does not wait for the name.
CanStartToolBlock_WithoutName(sent, blockIdx, toolState) ==
    /\ ~Has(sent, blockIdx)
    /\ Truthy(toolState.id)
    /\ ~StartsWith(toolState.id, "tool_ph_")

\* Lines 161-166: the condition under which content_block_start is sent.
CanStartToolBlock(sent, blockIdx, toolState) ==
    /\ ~Has(sent, blockIdx)
    /\ Truthy(toolState.id)
    /\ ~StartsWith(toolState.id, "tool_ph_")
    /\ Truthy(toolState.name)

\* Variant of ArgumentEvents that forwards the arguments whether or not the
\* block has been started.
ArgumentEvents_BeforeStart(sent, blockIdx, toolDelta, toolState) ==
    IF /\ toolDelta.function.defined
       /\ Truthy(toolDelta.function.arguments)
    THEN <<ArgsDeltaEvent(blockIdx, toolDelta.function.arguments)>>
    ELSE <<>>

\* Lines 181-195: the events that forward the arguments of a tool delta.
ArgumentEvents(sent, blockIdx, toolDelta, toolState) ==
    IF /\ toolDelta.function.defined
       /\ Truthy(toolDelta.function.arguments)
       /\ Has(sent, blockIdx)
    THEN <<ArgsDeltaEvent(blockIdx, toolDelta.function.arguments)>>
    ELSE <<>>

\* Lines 128-195: one element of delta.tool_calls.
HandleToolDelta(s, toolDelta) ==
    IF toolDelta.isNull THEN Throw(s)       \* toolDelta.index of null
    ELSE
      LET s1 == AllocateToolBlock(s, toolDelta)
          blockIdx == s1.openaiToolIdxToAnthropicBlockIdx[toolDelta.index]
          toolState == UpdateToolState(s1.toolStates[blockIdx], toolDelta)
          hasArguments ==
            toolDelta.function.defined /\ Truthy(toolDelta.function.arguments)
          s2 == [s1 EXCEPT
                   !.toolStates[blockIdx] = toolState,
                   !.outputTokenCount =
                       IF hasArguments
                       THEN @ + estimateTokenCount(toolDelta.function.arguments)
                       ELSE @]
          s3 == IF CanStartToolBlock(s2.sentToolBlockStarts, blockIdx, toolState)
                THEN [Yield(s2, ToolBlockStart(blockIdx, toolState.id, toolState.name))
                        EXCEPT !.sentToolBlockStarts = Append(@, blockIdx)]
                ELSE s2
      IN  [s3 EXCEPT !.yielded =
              @ \o ArgumentEvents(s3.sentToolBlockStarts, blockIdx, toolDelta, toolState)]

\* Lines 126-197: the loop over delta.tool_calls; an exception ends it.
RECURSIVE HandleToolCalls(_, _)
HandleToolCalls(s, tool_calls) ==
    IF tool_calls = <<>> \/ s.threw THEN s
    ELSE HandleToolCalls(HandleToolDelta(s, Head(tool_calls)), Tail(tool_calls))

\* Variant of StopReasonLookup whose map also has the stop reasons as keys,
\* each mapped to itself.
StopReasonLookup_KeepsStopReasons(openaiFinishReason) ==
    CASE openaiFinishReason = "stop" -> "end_turn"
      [] openaiFinishReason = "length" -> "max_tokens"
      [] openaiFinishReason = "tool_calls" -> "tool_use"
      [] openaiFinishReason = "function_call" -> "tool_use"
      [] openaiFinishReason = "content_filter" -> "stop_sequence"
      [] openaiFinishReason \in {"end_turn", "max_tokens", "tool_use", "stop_sequence"}
            -> openaiFinishReason
      [] openaiFinishReason = "constructor" -> FunctionValue
      [] OTHER -> Undefined

\* Lines 37-43, 201: openaiToAnthropicStopReasonMap[openaiFinishReason].  The map
\* is an object literal, so a key it does not define itself is looked up in
\* Object.prototype: "constructor" (like "toString", "valueOf", ...) yields a
\* function, any other unknown key yields undefined.
StopReasonLookup(openaiFinishReason) ==
    CASE openaiFinishReason = "stop" -> "end_turn"
      [] openaiFinishReason = "length" -> "max_tokens"
      [] openaiFinishReason = "tool_calls" -> "tool_use"
      [] openaiFinishReason = "function_call" -> "tool_use"
      [] openaiFinishReason = "content_filter" -> "stop_sequence"
      [] openaiFinishReason = "constructor" -> FunctionValue
      [] OTHER -> Undefined

\* Lines 201-204: the stop reason a finish reason sets.
StopReasonFor(openaiFinishReason) ==
    IF openaiFinishReason = "tool_calls" THEN "tool_use"
    ELSE IF Truthy(StopReasonLookup(openaiFinishReason))
         THEN StopReasonLookup(openaiFinishReason)
         ELSE "end_turn"

\* Variant of HandleFinish that sets the stop reason and stays in the loop.
HandleFinish_NoBreak(s, openaiFinishReason) ==
    IF Truthy(openaiFinishReason)
    THEN [s EXCEPT !.finalAnthropicStopReason = StopReasonFor(openaiFinishReason)]
    ELSE s

\* Lines 199-206: a present finish reason sets the stop reason and breaks.
HandleFinish(s, openaiFinishReason) ==
    IF Truthy(openaiFinishReason)
    THEN [s EXCEPT !.finalAnthropicStopReason = StopReasonFor(openaiFinishReason),
                   !.broke = TRUE]
    ELSE s

\* Variant of HandleParsedChunk that looks at the finish reason first and
\* leaves the loop without handling the deltas of the finishing chunk.
HandleParsedChunk_FinishFirst(s, parsedChunk) ==
    IF parsedChunk.isNull THEN Throw(s)
    ELSE IF ~parsedChunk.has_choices \/ Len(parsedChunk.choices) = 0 THEN s
    ELSE
      LET choice == parsedChunk.choices[1]
          afterText == HandleText(s, choice.delta)
          afterTools ==
            IF choice.delta.has_tool_calls
            THEN HandleToolCalls(afterText, choice.delta.tool_calls)
            ELSE afterText
      IN  IF ~choice.has_delta THEN Throw(s)
          ELSE IF Truthy(choice.finish_reason)
               THEN HandleFinish(s, choice.finish_reason)
          ELSE afterTools

\* Lines 94-206: the body of the loop for a parsed chunk.
HandleParsedChunk(s, parsedChunk) ==
    IF parsedChunk.isNull THEN Throw(s)     \* parsedChunk.choices of null
    ELSE IF ~parsedChunk.has_choices \/ Len(parsedChunk.choices) = 0 THEN s
    ELSE
      LET choice == parsedChunk.choices[1]
          afterText == HandleText(s, choice.delta)
          afterTools ==
            IF choice.delta.has_tool_calls
            THEN HandleToolCalls(afterText, choice.delta.tool_calls)
            ELSE afterText
      IN  IF ~choice.has_delta THEN Throw(s)      \* delta.content of undefined
          ELSE IF afterTools.threw THEN afterTools
          ELSE HandleFinish(afterTools, choice.finish_reason)

\* Variant of ProcessChunk in which a chunk that fails to parse is an error.
ProcessChunk_BadChunkThrows(s, chunk) ==
    IF ParseChunk(chunk).ok THEN HandleParsedChunk(s, ParseChunk(chunk).value)
    ELSE Throw(s)

\* Lines 66-207: one iteration of the for-await loop on a pulled chunk.
ProcessChunk(s, chunk) ==
    IF ParseChunk(chunk).ok THEN HandleParsedChunk(s, ParseChunk(chunk).value)
    ELSE s

\* Variant of BlockStopEvents that closes the tool blocks only.
BlockStopEvents_ToolBlocksOnly(textIdx, sent) ==
    [i \in 1..Len(sent) |-> BlockStop(sent[i])]

\* Variant of BlockStopEvents that closes the tool block opened last first.
BlockStopEvents_LastOpenedFirst(textIdx, sent) ==
    (IF textIdx # NullIdx THEN <<BlockStop(textIdx)>> ELSE <<>>)
    \o [i \in 1..Len(sent) |-> BlockStop(sent[Len(sent) + 1 - i])]

\* Lines 209-233: content_block_stop for the text block, then for every tool
\* block whose start was sent, in the order of sentToolBlockStarts.
BlockStopEvents(textIdx, sent) ==
    (IF textIdx # NullIdx THEN <<BlockStop(textIdx)>> ELSE <<>>)
    \o [i \in 1..Len(sent) |-> BlockStop(sent[i])]

\* Variant of AfterLoopEvents that sends message_delta before the block stops.
AfterLoopEvents_DeltaBeforeStops(s) ==
    <<MessageDelta(s.finalAnthropicStopReason, s.outputTokenCount)>>
    \o BlockStopEvents(s.textBlockAnthropicIdx, s.sentToolBlockStarts)
    \o <<MessageStop>>

\* Variant of AfterLoopEvents that closes the message and not its blocks.
AfterLoopEvents_NoBlockStops(s) ==
    <<MessageDelta(s.finalAnthropicStopReason, s.outputTokenCount), MessageStop>>

\* Variant of AfterLoopEvents that ends the stream at message_delta.
AfterLoopEvents_NoMessageStop(s) ==
    BlockStopEvents(s.textBlockAnthropicIdx, s.sentToolBlockStarts)
    \o <<MessageDelta(s.finalAnthropicStopReason, s.outputTokenCount)>>

\* Lines 209-250: what the generator yields after the loop.
AfterLoopEvents(s) ==
    BlockStopEvents(s.textBlockAnthropicIdx, s.sentToolBlockStarts)
    \o <<MessageDelta(s.finalAnthropicStopReason, s.outputTokenCount), MessageStop>>

\* Variant of StartEvents that sends the ping first.
StartEvents_PingFirst == <<Ping, MessageStart>>

\* Lines 46-64: what the generator yields before it pulls the first chunk.
StartEvents == <<MessageStart, Ping>>

\* Variant of CatchEvents that still closes the message after the error.
CatchEvents_ThenMessageStop == <<ErrorEvent, MessageStop>>

\* Lines 252-263: what the catch block yields.
CatchEvents == <<ErrorEvent>>

(***************************************************************************)
(* The chunks the upstream may deliver.  The payloads cover text, tool     *)
(* calls whose id, name and arguments arrive together or apart, two source *)
(* tool indices, every finish reason of the table, an unrecognized one and *)
(* one that names an inherited member; the physical shapes cover every     *)
(* branch of the parsing code; the malformed ones make processing throw.   *)
(***************************************************************************)
Json(choice) == EnvelopeString(JsonText(Parsed(choice)))

ToolChunk(index, id, function) ==
    Json(Choice(Delta(Undefined, <<ToolDelta(index, id, function)>>), Null))

FinishReasons ==
    {"stop", "length", "tool_calls", "function_call", "content_filter", "eos",
     "constructor"}

ContinuingChunks ==
    { StringChunk(TRUE, JsonText(Parsed(Choice(TextDelta("hello"), Null)))),
      ObjectChunk(Parsed(Choice(TextDelta(""), Null))),
      ToolChunk(0, Undefined, Function(Undefined, "{\"a\"")),
      EnvelopeObject(Parsed(Choice(
          Delta(Undefined, <<ToolDelta(0, "call_a", NoFunction)>>), Null))),
      StringChunk(FALSE, JsonText(Parsed(Choice(
          Delta(Undefined, <<ToolDelta(0, Undefined, Function("f", Undefined))>>),
          Null)))),
      ToolChunk(0, "call_a", Function("f", "")),
      ToolChunk(0, "call_a", Function("f", ":1}")),
      ToolChunk(1, "call_b", Function("g", "{}")),
      ToolChunk(0, "tool_ph_x", Function("f", "{}")),
      Json(Choice(Delta("hi", <<ToolDelta(1, Undefined, Function(Undefined, "[1")),
                                ToolDelta(0, "call_a", Function("f", "{}"))>>),
                  Null)),
      EnvelopeString(JsonText(EmptyChoices)),
      EnvelopeString(InvalidJson),
      StringChunk(FALSE, InvalidJson),
      EnvelopeFalsy }

FinishingChunks ==
    { Json(Choice(TextDelta(Undefined), r)) : r \in FinishReasons }
    \cup
    { Json(Choice(Delta("bye", <<ToolDelta(0, "call_a", Function("f", "{}"))>>),
                  "tool_calls")) }

ThrowingChunks ==
    { ObjectChunk(NullValue),
      EnvelopeString(JsonText(NullValue)),
      Json(ChoiceWithoutDelta(Null)),
      Json(Choice(Delta("hi", <<NullToolDelta>>), "stop")) }

Chunks == ContinuingChunks \cup FinishingChunks \cup ThrowingChunks

(***************************************************************************)
(* The generator.                                                          *)
(***************************************************************************)
Init ==
    /\ pc = "start"
    /\ nextAnthropicBlockIdx = 0
    /\ textBlockAnthropicIdx = NullIdx
    /\ openaiToolIdxToAnthropicBlockIdx = <<>>
    /\ toolStates = <<>>
    /\ sentToolBlockStarts = <<>>
    /\ outputTokenCount = 0
    /\ finalAnthropicStopReason = "end_turn"
    /\ out = <<>>
    /\ consumed = <<>>
    /\ loopExit = "none"

\* The locals after a step that ended in state s.
SetLocals(s) ==
    /\ nextAnthropicBlockIdx' = s.nextAnthropicBlockIdx
    /\ textBlockAnthropicIdx' = s.textBlockAnthropicIdx
    /\ openaiToolIdxToAnthropicBlockIdx' = s.openaiToolIdxToAnthropicBlockIdx
    /\ toolStates' = s.toolStates
    /\ sentToolBlockStarts' = s.sentToolBlockStarts
    /\ outputTokenCount' = s.outputTokenCount
    /\ finalAnthropicStopReason' = s.finalAnthropicStopReason

locals == <<nextAnthropicBlockIdx, textBlockAnthropicIdx,
            openaiToolIdxToAnthropicBlockIdx, toolStates, sentToolBlockStarts,
            outputTokenCount, finalAnthropicStopReason>>

\* Lines 45-64: message_start and ping.
Start ==
    /\ pc = "start"
    /\ out' = out \o StartEvents
    /\ pc' = "loop"
    /\ UNCHANGED <<locals, consumed, loopExit>>
    /\ UNCHANGED surroundings

\* Lines 66-207: the loop pulls a chunk, one of `chunks`, and processes it.
\* An exception in the processing reaches the catch block of lines 252-263.
Pull(chunks) ==
    /\ pc = "loop"
    /\ Len(consumed) < MaxChunks
    /\ \E chunk \in chunks :
         LET s == ProcessChunk(Locals, chunk)
         IN  /\ consumed' = Append(consumed, chunk)
             /\ SetLocals(s)
             /\ out' = out \o s.yielded \o (IF s.threw THEN CatchEvents ELSE <<>>)
             /\ pc' = IF s.threw THEN "done"
                      ELSE IF s.broke THEN "after_loop" ELSE "loop"
             /\ loopExit' = IF s.threw THEN "threw"
                            ELSE IF s.broke THEN "break" ELSE "none"
    /\ UNCHANGED surroundings

\* Lines 66-207 with any chunk of the upstream's alphabet.
PullChunk == Pull(Chunks)

\* Line 66: the upstream sequence is exhausted; the loop ends.
PullEnd ==
    /\ pc = "loop"
    /\ pc' = "after_loop"
    /\ loopExit' = "exhausted"
    /\ UNCHANGED <<locals, out, consumed>>
    /\ UNCHANGED surroundings

\* Line 66: pulling the next chunk fails; lines 252-263 yield the error event.
PullThrow ==
    /\ pc = "loop"
    /\ out' = out \o CatchEvents
    /\ pc' = "done"
    /\ loopExit' = "threw"
    /\ UNCHANGED <<locals, consumed>>
    /\ UNCHANGED surroundings

\* Lines 209-250: the closing events; the generator returns.
AfterLoop ==
    /\ pc = "after_loop"
    /\ out' = out \o AfterLoopEvents(Locals)
    /\ pc' = "done"
    /\ UNCHANGED <<locals, consumed, loopExit>>
    /\ UNCHANGED surroundings

Next == Start \/ PullChunk \/ PullEnd \/ PullThrow \/ AfterLoop

(***************************************************************************)
(* The request converter convertAnthropicToOpenAIMessages                  *)
(* (part_002:294-446): the messages it is given and the turns it pushes.   *)
(***************************************************************************)
\* A tool call of an assistant turn or of a completed message
\* (streaming.ts:437-444).
ToolCall(id, name, arguments) ==
    [type |-> "function", id |-> id, name |-> name, arguments |-> arguments]

\* Array.prototype.join
RECURSIVE Join(_, _)
Join(texts, separator) ==
    IF texts = <<>> THEN ""
    ELSE IF Len(texts) = 1 THEN texts[1]
    ELSE texts[1] \o separator \o Join(Tail(texts), separator)

\* The input object of a tool_use block, with the text JSON.stringify gives
\* for it; JSON.stringify throws on an input that is not serializable.
Input(json) == [serializable |-> TRUE, json |-> json]
UnserializableInput == [serializable |-> FALSE, json |-> Undefined]

\* The content of a tool_result block: a string, an array of items, or the
\* property missing from the request body.
StringResult(text) == [kind |-> "string", text |-> text, items |-> <<>>]
ArrayResult(items) == [kind |-> "array", text |-> Undefined, items |-> items]
MissingResult == [kind |-> "undefined", text |-> Undefined, items |-> <<>>]

\* Items of a tool result array: a text item, and an item of another type
\* with the text JSON.stringify gives for it.
TextItem(text) == [type |-> "text", text |-> text, json |-> Undefined]
OtherItem(json) == [type |-> "other", text |-> Undefined, json |-> json]

\* The content blocks of a message (types/anthropic.ts:3-36).
Block(type) ==
    [type |-> type, text |-> Undefined, source_type |-> Undefined,
     data_url |-> Undefined, id |-> Undefined, name |-> Undefined,
     input |-> UnserializableInput, tool_use_id |-> Undefined,
     content |-> MissingResult]
ContentBlockText(text) == [Block("text") EXCEPT !.text = text]
ContentBlockImage(source_type, data_url) ==
    [Block("image") EXCEPT !.source_type = source_type, !.data_url = data_url]
ContentBlockToolUse(id, name, input) ==
    [Block("tool_use") EXCEPT !.id = id, !.name = name, !.input = input]
ContentBlockToolResult(tool_use_id, content) ==
    [Block("tool_result") EXCEPT !.tool_use_id = tool_use_id, !.content = content]

\* A message whose content is a string, an array of blocks, or neither.
StringMessage(role, text) ==
    [role |-> role, kind |-> "string", text |-> text, blocks |-> <<>>]
ArrayMessage(role, blocks) ==
    [role |-> role, kind |-> "array", text |-> Undefined, blocks |-> blocks]
NullMessage(role) ==
    [role |-> role, kind |-> "null", text |-> Undefined, blocks |-> <<>>]

\* The system prompt: a string, an array of text blocks, or absent.
StringSystem(text) == [kind |-> "string", text |-> text, blocks |-> <<>>]
ArraySystem(blocks) == [kind |-> "array", text |-> Undefined, blocks |-> blocks]
NoSystem == [kind |-> "undefined", text |-> Undefined, blocks |-> <<>>]

\* The content of a pushed turn: a string, null, an array of parts, or
\* undefined.
StringContent(text) == [kind |-> "string", text |-> text, parts |-> <<>>]
NullContent == [kind |-> "null", text |-> Undefined, parts |-> <<>>]
PartsContent(parts) == [kind |-> "parts", text |-> Undefined, parts |-> parts]
UndefinedContent == [kind |-> "undefined", text |-> Undefined, parts |-> <<>>]

\* A pushed turn (streaming.ts:421-427).  `source` is the position in
\* anthropicMessages of the message the turn comes from, 0 for the system
\* prompt.
Turn(role, content, source) ==
    [role |-> role, content |-> content, tool_calls |-> <<>>,
     tool_call_id |-> Undefined, source |-> source]

\* Lines 578-609: serializeToolResultContent.
SerializedItem(item) ==
    IF item.type = "text" THEN item.text ELSE item.json
\* Variant of serializeToolResultContent that leaves the text items wrapped:
\* every item is written as its JSON text.
serializeToolResultContent_ItemsWrapped(content) ==
    IF content.kind = "string" THEN StringContent(content.text)
    ELSE IF content.kind = "array"
         THEN StringContent(Join([k \in 1..Len(content.items) |->
                                     IF content.items[k].type = "text"
                                     THEN "{\"type\":\"text\",\"text\":\""
                                          \o content.items[k].text \o "\"}"
                                     ELSE content.items[k].json], "\n"))
         ELSE UndefinedContent

serializeToolResultContent(content) ==
    IF content.kind = "string" THEN StringContent(content.text)
    ELSE IF content.kind = "array"
         THEN StringContent(Join([k \in 1..Len(content.items) |->
                                     SerializedItem(content.items[k])], "\n"))
         ELSE UndefinedContent      \* JSON.stringify(undefined) is undefined

\* Lines 300-316: the system turn, if the system text is not empty.
systemTextContent(system) ==
    IF system.kind = "string" THEN system.text
    ELSE IF system.kind = "array"
         THEN Join([k \in 1..Len(SelectSeq(system.blocks, LAMBDA b : b.type = "text"))
                       |-> SelectSeq(system.blocks, LAMBDA b : b.type = "text")[k].text],
                   "\n")
         ELSE ""
SystemTurns(system) ==
    IF Truthy(systemTextContent(system))
    THEN <<Turn("system", StringContent(systemTextContent(system)), 0)>>
    ELSE <<>>

\* Lines 341-388 for a user message: the parts of its text blocks and of its
\* base64 images, in block order.
RECURSIVE openaiPartsForUserMessage(_)
openaiPartsForUserMessage(blocks) ==
    IF blocks = <<>> THEN <<>>
    ELSE (IF Head(blocks).type = "text"
          THEN <<[type |-> "text", text |-> Head(blocks).text,
                  image_url |-> Undefined]>>
          ELSE IF Head(blocks).type = "image" /\ Head(blocks).source_type = "base64"
               THEN <<[type |-> "image_url", text |-> Undefined,
                       image_url |-> Head(blocks).data_url]>>
               ELSE <<>>)
         \o openaiPartsForUserMessage(Tail(blocks))

\* Variant of assistantToolCalls that writes "{}" for every input.
RECURSIVE assistantToolCalls_EmptyArguments(_)
assistantToolCalls_EmptyArguments(blocks) ==
    IF blocks = <<>> THEN <<>>
    ELSE (IF Head(blocks).type = "tool_use"
          THEN <<ToolCall(Head(blocks).id, Head(blocks).name, "{}")>>
          ELSE <<>>)
         \o assistantToolCalls_EmptyArguments(Tail(blocks))

\* Lines 358-380 for an assistant message: one tool call per tool_use block.
RECURSIVE assistantToolCalls(_)
assistantToolCalls(blocks) ==
    IF blocks = <<>> THEN <<>>
    ELSE (IF Head(blocks).type = "tool_use"
          THEN <<ToolCall(Head(blocks).id, Head(blocks).name,
                          IF Head(blocks).input.serializable
                          THEN Head(blocks).input.json ELSE "{}")>>
          ELSE <<>>)
         \o assistantToolCalls(Tail(blocks))

\* Lines 350-351 and 408: the texts of an assistant message, the empty ones
\* filtered out.
RECURSIVE textContentForAssistant(_)
textContentForAssistant(blocks) ==
    IF blocks = <<>> THEN <<>>
    ELSE (IF Head(blocks).type = "text" /\ Truthy(Head(blocks).text)
          THEN <<Head(blocks).text>> ELSE <<>>)
         \o textContentForAssistant(Tail(blocks))

\* Lines 381-388 for a user message: one tool turn per tool_result block,
\* pushed while the blocks are gone through.
RECURSIVE ToolTurns(_, _)
ToolTurns(blocks, source) ==
    IF blocks = <<>> THEN <<>>
    ELSE (IF Head(blocks).type = "tool_result"
          THEN <<[Turn("tool", serializeToolResultContent(Head(blocks).content),
                       source)
                    EXCEPT !.tool_call_id = Head(blocks).tool_use_id]>>
          ELSE <<>>)
         \o ToolTurns(Tail(blocks), source)

\* Lines 390-404: the user turn pushed after the blocks.
UserTurns(parts, source) ==
    IF parts = <<>> THEN <<>>
    ELSE IF (\E k \in 1..Len(parts) : parts[k].type = "image_url") \/ Len(parts) > 1
         THEN <<Turn("user", PartsContent(parts), source)>>
         ELSE <<Turn("user",
                     StringContent(IF Truthy(parts[1].text) THEN parts[1].text
                                   ELSE ""),
                     source)>>

\* Variant of AssistantTurns that pushes the text and the tool calls as one
\* turn.
AssistantTurns_OneTurn(texts, calls, source) ==
    LET assistantText == Join(texts, "\n")
        withCalls == [Turn("assistant", NullContent, source)
                        EXCEPT !.tool_calls = calls]
    IN  IF Truthy(assistantText) /\ Len(calls) > 0
        THEN <<[Turn("assistant", StringContent(assistantText), source)
                  EXCEPT !.tool_calls = calls]>>
        ELSE IF Truthy(assistantText)
             THEN <<Turn("assistant", StringContent(assistantText), source)>>
             ELSE IF Len(calls) > 0 THEN <<withCalls>>
                  ELSE <<Turn("assistant", StringContent(""), source)>>

\* Variant of AssistantTurns that pushes null content for an empty message.
AssistantTurns_EmptyIsNull(texts, calls, source) ==
    LET assistantText == Join(texts, "\n")
        withCalls == [Turn("assistant", NullContent, source)
                        EXCEPT !.tool_calls = calls]
    IN  IF Truthy(assistantText) /\ Len(calls) > 0
        THEN <<Turn("assistant", StringContent(assistantText), source), withCalls>>
        ELSE IF Truthy(assistantText)
             THEN <<Turn("assistant", StringContent(assistantText), source)>>
             ELSE IF Len(calls) > 0 THEN <<withCalls>>
                  ELSE <<Turn("assistant", NullContent, source)>>

\* Lines 406-441: the assistant turns pushed after the blocks.
AssistantTurns(texts, calls, source) ==
    LET assistantText == Join(texts, "\n")
        withCalls == [Turn("assistant", NullContent, source)
                        EXCEPT !.tool_calls = calls]
    IN  IF Truthy(assistantText) /\ Len(calls) > 0
        THEN <<Turn("assistant", StringContent(assistantText), source), withCalls>>
        ELSE IF Truthy(assistantText)
             THEN <<Turn("assistant", StringContent(assistantText), source)>>
             ELSE IF Len(calls) > 0 THEN <<withCalls>>
                  ELSE <<Turn("assistant", StringContent(""), source)>>

\* Lines 319-443: the turns one iteration of the loop pushes for msg, in
\* the order it pushes them.
MessageTurns(msg, source) ==
    IF msg.kind = "string" THEN <<Turn(msg.role, StringContent(msg.text), source)>>
    ELSE IF msg.kind # "array" THEN <<>>
    ELSE IF msg.blocks = <<>> THEN <<Turn(msg.role, StringContent(""), source)>>
    ELSE IF msg.role = "user"
         THEN ToolTurns(msg.blocks, source)
              \o UserTurns(openaiPartsForUserMessage(msg.blocks), source)
         ELSE IF msg.role = "assistant"
              THEN AssistantTurns(textContentForAssistant(msg.blocks),
                                  assistantToolCalls(msg.blocks), source)
              ELSE <<>>

\* Variant of push that puts the turns at the front of the array.
push_AtFront(messages, turns) == turns \o messages

\* Array.prototype.push on openaiMessages.
push(messages, turns) == messages \o turns

(***************************************************************************)
(* The request of the messages endpoint (anthropic.ts:60-73) and the       *)
(* converters of its tools and of its tool choice (part_002:448-489).      *)
(***************************************************************************)
\* anthropic.ts:49-53: a tool of the request; description is optional.
AnthropicTool(name, description, input_schema) ==
    [name |-> name, description |-> description, input_schema |-> input_schema]

\* anthropic.ts:71: the tools property, absent or an array.
NoTools == [present |-> FALSE, items |-> <<>>]
Tools(items) == [present |-> TRUE, items |-> items]

\* anthropic.ts:55-58 and 72: the tool_choice property, absent or an object
\* whose type and name may be missing.
NoToolChoice == [present |-> FALSE, type |-> Undefined, name |-> Undefined]
AnthropicToolChoice(type, name) == [present |-> TRUE, type |-> type, name |-> name]

\* anthropic.ts:65: the stop_sequences property: absent, null or an array.
NoStopSequences == [kind |-> "undefined", items |-> <<>>]
NullStopSequences == [kind |-> "null", items |-> <<>>]
StopSequences(items) == [kind |-> "array", items |-> items]

\* anthropic.ts:60-73: a request with the system prompt and the messages and
\* no other optional property.  Numbers and booleans are their JSON text.
Request(system, messages) ==
    [model |-> "claude-sonnet-4", has_messages |-> TRUE,
     system |-> system, messages |-> messages,
     max_tokens |-> Undefined, temperature |-> Undefined, top_p |-> Undefined,
     stop_sequences |-> NoStopSequences, stream |-> Undefined,
     tools |-> NoTools, tool_choice |-> NoToolChoice]

\* A function tool of the payload (part_002:455-462).
Tool(name, description, parameters) ==
    [type |-> "function", name |-> name, description |-> description,
     parameters |-> parameters]

\* Variant of convertAnthropicToolsToOpenAI that maps an empty list to an
\* empty list.
convertAnthropicToolsToOpenAI_EmptyKept(anthropicTools) ==
    IF ~anthropicTools.present
    THEN NoTools
    ELSE Tools([k \in 1..Len(anthropicTools.items) |->
                  Tool(anthropicTools.items[k].name,
                       IF Truthy(anthropicTools.items[k].description)
                       THEN anthropicTools.items[k].description ELSE "",
                       anthropicTools.items[k].input_schema)])

\* part_002:448-463.  The result undefined is NoTools.
convertAnthropicToolsToOpenAI(anthropicTools) ==
    IF ~anthropicTools.present \/ Len(anthropicTools.items) = 0
    THEN NoTools
    ELSE Tools([k \in 1..Len(anthropicTools.items) |->
                  Tool(anthropicTools.items[k].name,
                       IF Truthy(anthropicTools.items[k].description)
                       THEN anthropicTools.items[k].description ELSE "",
                       anthropicTools.items[k].input_schema)])

\* The results of the tool-choice converter: undefined, the string "auto",
\* or the object that forces one function.
UndefinedChoice == [kind |-> "undefined", value |-> Undefined, name |-> Undefined]
StringChoice(value) == [kind |-> "string", value |-> value, name |-> Undefined]
FunctionChoice(name) == [kind |-> "function", value |-> Undefined, name |-> name]

\* Variant of convertAnthropicToolChoiceToOpenAI that maps `any` to
\* "required".
convertAnthropicToolChoiceToOpenAI_AnyRequired(anthropicChoice) ==
    IF ~anthropicChoice.present THEN UndefinedChoice
    ELSE IF anthropicChoice.type = "auto" THEN StringChoice("auto")
    ELSE IF anthropicChoice.type = "any" THEN StringChoice("required")
    ELSE IF anthropicChoice.type = "tool" /\ Truthy(anthropicChoice.name)
         THEN FunctionChoice(anthropicChoice.name)
    ELSE StringChoice("auto")

\* part_002:465-489.
convertAnthropicToolChoiceToOpenAI(anthropicChoice) ==
    IF ~anthropicChoice.present THEN UndefinedChoice
    ELSE IF anthropicChoice.type = "auto" THEN StringChoice("auto")
    ELSE IF anthropicChoice.type = "any" THEN StringChoice("auto")
    ELSE IF anthropicChoice.type = "tool" /\ Truthy(anthropicChoice.name)
         THEN FunctionChoice(anthropicChoice.name)
    ELSE StringChoice("auto")

\* The request converter is not part of the run.
NoConversion ==
    /\ anthropicRequest = Request(NoSystem, <<>>)
    /\ openaiMessages = <<>>
    /\ cpc = "idle"
    /\ converted = 0

(***************************************************************************)
(* The response translator convertOpenAIToAnthropicResponse                *)
(* (part_002:491-576) and the completed responses it is given.             *)
(***************************************************************************)
\* A completed response with one choice; NoToolCalls is a message without
\* the tool_calls property.
Completion(content, has_tool_calls, tool_calls, finish_reason) ==
    [id |-> "chatcmpl-1", has_choices |-> TRUE, content |-> content,
     has_tool_calls |-> has_tool_calls, tool_calls |-> tool_calls,
     finish_reason |-> finish_reason]

\* A completed response whose choices array is empty.
CompletionWithoutChoices ==
    [id |-> "chatcmpl-1", has_choices |-> FALSE, content |-> Null,
     has_tool_calls |-> FALSE, tool_calls |-> <<>>, finish_reason |-> Null]

\* JSON.parse of an arguments string (part_002:528): the kind of value it
\* yields, or ok = FALSE for the SyntaxError.
ParseArguments(arguments) ==
    CASE arguments = "{}" -> [ok |-> TRUE, kind |-> "object"]
      [] arguments = "{\"a\":1}" -> [ok |-> TRUE, kind |-> "object"]
      [] arguments = "[1]" -> [ok |-> TRUE, kind |-> "object"]
      [] arguments = "null" -> [ok |-> TRUE, kind |-> "null"]
      [] arguments = "7" -> [ok |-> TRUE, kind |-> "number"]
      [] OTHER -> [ok |-> FALSE, kind |-> "none"]

\* Variant of ToolInput without the test `parsedInput !== null`: null is
\* typeof object and is used as it is.
ToolInput_NullUsedAsIs(arguments) ==
    IF ~ParseArguments(arguments).ok
    THEN [shape |-> "error_parsing_arguments", json |-> arguments]
    ELSE IF ParseArguments(arguments).kind \in {"object", "null"}
         THEN [shape |-> "parsed", json |-> arguments]
         ELSE [shape |-> "value", json |-> arguments]

\* Lines 526-538: the input object of a tool_use block.
ToolInput(arguments) ==
    IF ~ParseArguments(arguments).ok
    THEN [shape |-> "error_parsing_arguments", json |-> arguments]
    ELSE IF ParseArguments(arguments).kind = "object"
         THEN [shape |-> "parsed", json |-> arguments]
         ELSE [shape |-> "value", json |-> arguments]

\* A content block of the response; a text block has no id, name or input.
NoInput == [shape |-> "none", json |-> Undefined]
TextBlock(text) ==
    [type |-> "text", text |-> text, id |-> Undefined, name |-> Undefined,
     input |-> NoInput]
ToolUseBlock(call) ==
    [type |-> "tool_use", text |-> Undefined, id |-> call.id, name |-> call.name,
     input |-> ToolInput(call.arguments)]

\* Lines 523-544: one tool_use block per call of type function, in order.
RECURSIVE ToolUseBlocks(_)
ToolUseBlocks(tool_calls) ==
    IF tool_calls = <<>> THEN <<>>
    ELSE (IF Head(tool_calls).type = "function"
          THEN <<ToolUseBlock(Head(tool_calls))>> ELSE <<>>)
         \o ToolUseBlocks(Tail(tool_calls))

\* Variant of stopReasonMap without the function_call entry.
stopReasonMap_WithoutFunctionCall(finishReason) ==
    CASE finishReason = "stop" -> "end_turn"
      [] finishReason = "length" -> "max_tokens"
      [] finishReason = "tool_calls" -> "tool_use"
      [] finishReason = "content_filter" -> "stop_sequence"
      [] finishReason = "constructor" -> FunctionValue
      [] OTHER -> Undefined

\* Lines 499-505: stopReasonMap[finishReason].  The map is an object literal:
\* a key it does not define is looked up in Object.prototype, as in the
\* generator's map.
stopReasonMap(finishReason) ==
    CASE finishReason = "stop" -> "end_turn"
      [] finishReason = "length" -> "max_tokens"
      [] finishReason = "tool_calls" -> "tool_use"
      [] finishReason = "function_call" -> "tool_use"
      [] finishReason = "content_filter" -> "stop_sequence"
      [] finishReason = "constructor" -> FunctionValue
      [] OTHER -> Undefined

\* Lines 512 and 545-547: the stop reason of a choice.  An empty tool_calls
\* array is truthy.
anthropicStopReason(finishReason, has_tool_calls) ==
    IF has_tool_calls /\ finishReason = "tool_calls" THEN "tool_use"
    ELSE IF Truthy(stopReasonMap(finishReason)) THEN stopReasonMap(finishReason)
    ELSE "end_turn"

\* Lines 496 and 507-549: the content blocks before the fallback of 551-556.
anthropicContent(response) ==
    IF ~response.has_choices THEN <<>>
    ELSE (IF Truthy(response.content) THEN <<TextBlock(response.content)>> ELSE <<>>)
         \o (IF response.has_tool_calls THEN ToolUseBlocks(response.tool_calls)
             ELSE <<>>)

\* Variant of convertOpenAIToAnthropicResponse without the fallback of lines
\* 551-556.
convertOpenAIToAnthropicResponse_NoFallback(response) ==
    [done |-> TRUE,
     id |-> IF Truthy(response.id) THEN "msg_" \o response.id
            ELSE "msg_" \o requestId \o "_completed",
     content |-> anthropicContent(response),
     stop_reason |-> IF response.has_choices
                     THEN anthropicStopReason(response.finish_reason,
                                              response.has_tool_calls)
                     ELSE "end_turn"]

\* Lines 491-576.
convertOpenAIToAnthropicResponse(response) ==
    [done |-> TRUE,
     id |-> IF Truthy(response.id) THEN "msg_" \o response.id
            ELSE "msg_" \o requestId \o "_completed",
     content |-> IF anthropicContent(response) = <<>> THEN <<TextBlock("")>>
                 ELSE anthropicContent(response),
     stop_reason |-> IF response.has_choices
                     THEN anthropicStopReason(response.finish_reason,
                                              response.has_tool_calls)
                     ELSE "end_turn"]

\* No response has been translated.
Untranslated ==
    [done |-> FALSE, id |-> Undefined, content |-> <<>>, stop_reason |-> Undefined]

\* The response translator is not part of the run.
NoResponse ==
    /\ openaiResponse = CompletionWithoutChoices
    /\ anthropicResponse = Untranslated

\* Neither translator is part of the run.
NoTranslation == NoResponse /\ NoConversion

(***************************************************************************)
(* The token estimator getTokenCount (part_000) and the request handlers   *)
(* handleAnthropicMessages (part_002:35-170) and handleAnthropicTokenCount *)
(* (part_002:172-211).                                                     *)
(***************************************************************************)
\* A message in the tokenizer's format (part_000:6-9), or null.
ChatMessage(role, content) == [null |-> FALSE, role |-> role, content |-> content]
NullChatMessage == [null |-> TRUE, role |-> Undefined, content |-> Undefined]

\* part_000:11-72.  A tool turn of the converter has no name; the parts the
\* converter builds are of type text or image_url, never input_text, so an
\* array of parts gives no text.  Undefined content is not an input of this
\* operator: see TokenizerThrows.
convertToTokenizerFormat(message) ==
    LET role == IF message.role = "tool" THEN "assistant" ELSE message.role
    IN  IF message.content.kind = "string"
        THEN ChatMessage(role, message.content.text)
        ELSE IF message.content.kind = "null" /\ Len(message.tool_calls) > 0
             THEN ChatMessage(role,
                      Join([k \in 1..Len(message.tool_calls) |->
                               "Function call: " \o message.tool_calls[k].name
                               \o "(" \o message.tool_calls[k].arguments \o ")"],
                           " "))
             ELSE NullChatMessage

\* part_000:51-52: message.content.map of a content that is undefined
\* throws a TypeError.
TokenizerThrows(messages) ==
    \E k \in 1..Len(messages) : messages[k].content.kind = "undefined"

\* countTokens of gpt-tokenizer (part_000:1), a library outside the
\* repository: abstracted to one token per message and one per character.
RECURSIVE countTokens(_)
countTokens(chat) ==
    IF chat = <<>> THEN 0
    ELSE 1 + Len(Head(chat).content) + countTokens(Tail(chat))

\* part_000:76-84: the converted messages that count as input, and as output.
TokenizerInput(messages) ==
    SelectSeq([k \in 1..Len(messages) |-> convertToTokenizerFormat(messages[k])],
              LAMBDA m : ~m.null /\ m.role # "assistant")
TokenizerOutput(messages) ==
    SelectSeq([k \in 1..Len(messages) |-> convertToTokenizerFormat(messages[k])],
              LAMBDA m : ~m.null /\ m.role = "assistant")

\* part_000:74-90: the object {input, output}.
getTokenCount(messages) ==
    TokenCounts(countTokens(TokenizerInput(messages)),
                countTokens(TokenizerOutput(messages)))

\* part_002:57-60 and 294-446: the whole of convertAnthropicToOpenAIMessages.
RECURSIVE ConvertFrom(_, _, _)
ConvertFrom(messages, anthropicMessages, k) ==
    IF k > Len(anthropicMessages) THEN messages
    ELSE ConvertFrom(push(messages, MessageTurns(anthropicMessages[k], k)),
                     anthropicMessages, k + 1)
convertAnthropicToOpenAIMessages(anthropicMessages, system) ==
    ConvertFrom(push(<<>>, SystemTurns(system)), anthropicMessages, 1)

\* The body of an HTTP request for one of the two routes: text that parses
\* to a request, or text that c.req.json() rejects.
Body(path, json) == [path |-> path, parses |-> TRUE, json |-> json]
UnparseableBody(path) ==
    [path |-> path, parses |-> FALSE, json |-> Request(NoSystem, <<>>)]

\* A property of the payload that has not been set.
Absent == "<absent>"
NoStop == [present |-> FALSE, items |-> <<>>]
Stop(items) == [present |-> TRUE, items |-> items]
AbsentChoice == [kind |-> "absent", value |-> Undefined, name |-> Undefined]

\* part_002:213-233 with state.models not cached.
selectCopilotModel(anthropicModel) == "claude-3-5-sonnet-20241022"

\* part_002:73: isNullish.
isNullish(value) == value = Undefined \/ value = Null

\* part_002:66-97: the payload built from the request and the converted
\* parts.  With state.models not cached, selectedModel is undefined and so
\* is the max_tokens it gives (lines 74-77).
Payload(request, messages, openaiTools, openaiToolChoice) ==
    [built |-> TRUE,
     model |-> selectCopilotModel(request.model),
     messages |-> messages,
     stream |-> IF request.stream = "true" THEN "true" ELSE "false",
     max_tokens |-> IF isNullish(request.max_tokens) THEN Undefined
                    ELSE request.max_tokens,
     temperature |-> IF request.temperature # Undefined THEN request.temperature
                     ELSE Absent,
     top_p |-> IF request.top_p # Undefined THEN request.top_p ELSE Absent,
     stop |-> IF request.stop_sequences.kind = "array"
              THEN Stop(request.stop_sequences.items) ELSE NoStop,
     tools |-> IF openaiTools.present THEN openaiTools ELSE NoTools,
     tool_choice |-> IF openaiToolChoice.kind # "undefined" THEN openaiToolChoice
                     ELSE AbsentChoice]

\* No payload has been built.
NoPayload ==
    [built |-> FALSE, model |-> Undefined, messages |-> <<>>, stream |-> "false",
     max_tokens |-> Undefined, temperature |-> Absent, top_p |-> Absent,
     stop |-> NoStop, tools |-> NoTools, tool_choice |-> AbsentChoice]

\* What a step of the handler throws: an HTTPError with the status of the
\* backend's response (streaming.ts:300-312, part_002:148-158), or another
\* Error.
HTTPError(status) ==
    [class |-> "HTTPError", is_error |-> TRUE,
     message |-> "Failed to create chat completions", status |-> status]
Error(class, message) ==
    [class |-> class, is_error |-> TRUE, message |-> message, status |-> 0]

\* An HTTP response of the handler: c.json(errorResponse, status) with the
\* envelope {type: "error", error: {type, message}}, c.json of a message or
\* of a token count, or the SSE stream.
NoReply ==
    [sent |-> FALSE, status |-> 0, type |-> Undefined, error_type |-> Undefined,
     message |-> Undefined, input_tokens |-> NoTokens]
ErrorReply(status, error_type, message) ==
    [sent |-> TRUE, status |-> status, type |-> "error", error_type |-> error_type,
     message |-> message, input_tokens |-> NoTokens]
Reply(type) ==
    [sent |-> TRUE, status |-> 200, type |-> type, error_type |-> Undefined,
     message |-> Undefined, input_tokens |-> NoTokens]

\* part_002:145-169: the catch block of handleAnthropicMessages.
CatchReply(error) ==
    IF error.class = "HTTPError"
    THEN ErrorReply(error.status,
                    IF error.status >= 400 /\ error.status < 500
                    THEN "invalid_request_error" ELSE "api_error",
                    error.message)
    ELSE ErrorReply(500, "api_error",
                    IF error.is_error THEN error.message
                    ELSE "An unexpected error occurred")

\* part_002:199-210: the catch block of handleAnthropicTokenCount.
TokenCountCatchReply(error) ==
    ErrorReply(400, "invalid_request_error",
               IF error.is_error THEN error.message ELSE "Failed to count tokens")

\* No request is being handled.
NoEndpoint ==
    /\ mpc = "idle"
    /\ body = UnparseableBody("none")
    /\ openaiPayload = NoPayload
    /\ reply = NoReply
    /\ estimatedInputTokens = Number(0)

(***************************************************************************)
(* The refresh of the Copilot token (part_001:30-73).  setupCopilotToken   *)
(* clears the interval it finds, awaits getCopilotToken, stores the token  *)
(* and starts an interval whose callback fetches a new token.  Time is     *)
(* abstracted: an active interval may fire at any moment, and a call of    *)
(* getCopilotToken may take any time to resolve or to reject.              *)
(***************************************************************************)
\* part_001:33
MAX_REFRESH_FAILURES == 3

\* The tokens getCopilotToken may resolve with.
Tokens == {"tid=1", "tid=2"}

\* The Timeout object of the n-th setInterval call.
Timer(n) == "timer_" \o ToString(n)

\* A run of the interval callback of timer `timer`: awaiting getCopilotToken,
\* returned after a refresh, or returned from its catch block.
Callback(timer, status) == [timer |-> timer, status |-> status]

\* The calls of setupCopilotToken that have reached setInterval.
SetupsDone == {c \in DOMAIN setups : setups[c] = "done"}

\* Variant of CatchRefreshFailure that never resets the count.
CatchRefreshFailure_NoReset(count) == count + 1

\* part_001:58-66: the count of failures after the catch block.
CatchRefreshFailure(count) ==
    IF count + 1 >= MAX_REFRESH_FAILURES THEN 0 ELSE count + 1

\* part_001:31-32: the module has been loaded and setupCopilotToken has not
\* been called.
NoRefresh ==
    /\ refreshIntervalId = Null
    /\ refreshFailureCount = 0
    /\ copilotToken = Undefined
    /\ timers = {}
    /\ setups = <<>>
    /\ callbacks = <<>>

\* No handler loop consumes the generator.
NoHandler ==
    /\ hpc = "idle"
    /\ inflight = <<>>
    /\ written = <<>>

\* Lines 24-35: the locals of an invocation that has just been made.
NewLocals ==
    [nextAnthropicBlockIdx |-> 0,
     textBlockAnthropicIdx |-> NullIdx,
     openaiToolIdxToAnthropicBlockIdx |-> <<>>,
     toolStates |-> <<>>,
     sentToolBlockStarts |-> <<>>,
     outputTokenCount |-> 0,
     finalAnthropicStopReason |-> "end_turn",
     yielded |-> <<>>,
     threw |-> FALSE,
     broke |-> FALSE]

\* A second invocation at position p that has done nothing yet.
Invocation(p) ==
    [pc |-> p, s |-> NewLocals, out |-> <<>>, consumed |-> <<>>, loopExit |-> "none"]

\* No second invocation exists.
NoOther == other = Invocation("idle")

\* The generator on its own: nothing around it moves.
Alone == NoHandler /\ NoOther /\ NoTranslation /\ NoEndpoint /\ NoRefresh

\* One invocation of the generator, and nothing else.
AloneInit == Init /\ Alone

Spec == AloneInit /\ [][Next]_vars

\* The handler of the stream (part_002:112-119) pulls the generator until it
\* returns, and the upstream sequence is finite: a generator that can take a
\* step eventually takes one.
FairSpec == Spec /\ WF_vars(Next)

(***************************************************************************)
(* The streaming branch of handleAnthropicMessages (part_002:108-122):     *)
(*     for await (const sseEvent of convertOpenAIStreamToAnthropic(...)) { *)
(*       await stream.write(sseEvent)                                      *)
(*     }                                                                   *)
(* The generator runs only while the loop awaits its next value.  The code *)
(* of the generator between two pulls reads nothing but its locals, so a   *)
(* generator step computes the yields up to its next pull at once; the     *)
(* events of `out` beyond those handed to the loop are yields the          *)
(* generator has still to reach.                                           *)
(***************************************************************************)
\* Number of events the loop has received from the generator.
Handed == Len(written) + Len(inflight)

\* Chunks the upstream delivers in the handler's specification: one event
\* pair, several events, none (unparseable), a finish, an exception.
HandlerChunks ==
    { StringChunk(TRUE, JsonText(Parsed(Choice(TextDelta("hello"), Null)))),
      Json(Choice(Delta("hi", <<ToolDelta(1, Undefined, Function(Undefined, "[1")),
                                ToolDelta(0, "call_a", Function("f", "{}"))>>),
                  Null)),
      EnvelopeString(InvalidJson),
      Json(Choice(TextDelta(Undefined), "stop")),
      ObjectChunk(NullValue) }

HandlerInit ==
    /\ Init
    /\ NoOther
    /\ NoTranslation
    /\ NoEndpoint
    /\ NoRefresh
    /\ hpc = "next"
    /\ inflight = <<>>
    /\ written = <<>>

\* The loop awaits the generator, which has handed out all it yielded: the
\* generator runs on to its next pull of the upstream, or returns.
GeneratorRuns ==
    /\ hpc = "next"
    /\ Handed = Len(out)
    /\ Next
    /\ consumed' # consumed => consumed'[Len(consumed')] \in HandlerChunks

\* Variant of WriteEvent that calls stream.write without awaiting it.
WriteEvent_NotAwaited ==
    /\ hpc = "next"
    /\ Handed < Len(out)
    /\ inflight' = Append(inflight, out[Handed + 1])
    /\ hpc' = "next"
    /\ UNCHANGED <<pc, locals, out, consumed, loopExit, refresher, written, other, translators, endpoint>>

\* part_002:112-118: the loop receives the next event and calls
\* stream.write(sseEvent); it awaits the write.
WriteEvent ==
    /\ hpc = "next"
    /\ Handed < Len(out)
    /\ inflight' = Append(inflight, out[Handed + 1])
    /\ hpc' = "write"
    /\ UNCHANGED <<pc, locals, out, consumed, loopExit, refresher, written, other, translators, endpoint>>

\* part_002:118: the write completes; the loop asks for the next event.
WriteCompleted ==
    /\ hpc = "write"
    /\ written' = Append(written, Head(inflight))
    /\ inflight' = Tail(inflight)
    /\ hpc' = "next"
    /\ UNCHANGED <<pc, locals, out, consumed, loopExit, refresher, other, translators, endpoint>>

\* part_002:112-119: the generator has returned; the loop ends.
LoopEnds ==
    /\ hpc = "next"
    /\ Handed = Len(out)
    /\ pc = "done"
    /\ hpc' = "done"
    /\ UNCHANGED <<pc, locals, out, consumed, loopExit, refresher, inflight, written, other,
                   translators, endpoint>>

HandlerNext == GeneratorRuns \/ WriteEvent \/ WriteCompleted \/ LoopEnds

HandlerSpec == HandlerInit /\ [][HandlerNext]_vars

(***************************************************************************)
(* Two invocations of convertOpenAIStreamToAnthropic for two concurrent    *)
(* requests.  Every variable of lines 24-43 is declared inside the         *)
(* function, so each invocation has its own: the first one's are the       *)
(* variables of this module, the second one's are the fields of `other`.   *)
(* Their steps interleave at the awaits of the for-await loop.             *)
(***************************************************************************)
\* Chunks the two upstreams deliver.
TwoChunks ==
    { StringChunk(TRUE, JsonText(Parsed(Choice(TextDelta("hello"), Null)))),
      ToolChunk(1, "call_b", Function("g", "{}")),
      Json(Choice(TextDelta(Undefined), "tool_calls")) }

TwoInit ==
    /\ Init
    /\ NoHandler
    /\ NoTranslation
    /\ NoEndpoint
    /\ NoRefresh
    /\ other = Invocation("start")

\* A step of the first invocation.
FirstRuns ==
    /\ Next
    /\ consumed' # consumed => consumed'[Len(consumed')] \in TwoChunks

\* Variant of OtherLocals in which the block counter is one variable of the
\* module, shared by the invocations.
OtherLocals_SharedCounter ==
    [other.s EXCEPT !.nextAnthropicBlockIdx = nextAnthropicBlockIdx]

\* Lines 24-35: the locals of the second invocation.
OtherLocals == other.s

\* The locals of s with the per-step fields cleared.
Kept(s) == [s EXCEPT !.yielded = <<>>, !.threw = FALSE, !.broke = FALSE]

\* Lines 45-64 in the second invocation.
OtherStart ==
    /\ other.pc = "start"
    /\ other' = [other EXCEPT !.out = @ \o StartEvents, !.pc = "loop"]
    /\ UNCHANGED <<pc, locals, out, consumed, loopExit, refresher, handler, translators, endpoint>>

\* Lines 66-207 in the second invocation.
OtherPullChunk ==
    /\ other.pc = "loop"
    /\ Len(other.consumed) < MaxChunks
    /\ \E chunk \in TwoChunks :
         LET s == ProcessChunk(OtherLocals, chunk)
         IN  other' = [other EXCEPT
                 !.consumed = Append(@, chunk),
                 !.s = Kept(s),
                 !.out = @ \o s.yielded \o (IF s.threw THEN CatchEvents ELSE <<>>),
                 !.pc = IF s.threw THEN "done"
                        ELSE IF s.broke THEN "after_loop" ELSE "loop",
                 !.loopExit = IF s.threw THEN "threw"
                              ELSE IF s.broke THEN "break" ELSE "none"]
    /\ UNCHANGED <<pc, locals, out, consumed, loopExit, refresher, handler, translators, endpoint>>

\* Line 66 in the second invocation: its upstream is exhausted.
OtherPullEnd ==
    /\ other.pc = "loop"
    /\ other' = [other EXCEPT !.pc = "after_loop", !.loopExit = "exhausted"]
    /\ UNCHANGED <<pc, locals, out, consumed, loopExit, refresher, handler, translators, endpoint>>

\* Line 66 in the second invocation: pulling fails.
OtherPullThrow ==
    /\ other.pc = "loop"
    /\ other' = [other EXCEPT !.out = @ \o CatchEvents, !.pc = "done",
                              !.loopExit = "threw"]
    /\ UNCHANGED <<pc, locals, out, consumed, loopExit, refresher, handler, translators, endpoint>>

\* Lines 209-250 in the second invocation.
OtherAfterLoop ==
    /\ other.pc = "after_loop"
    /\ other' = [other EXCEPT !.out = @ \o AfterLoopEvents(OtherLocals), !.pc = "done"]
    /\ UNCHANGED <<pc, locals, out, consumed, loopExit, refresher, handler, translators, endpoint>>

TwoNext ==
    \/ FirstRuns
    \/ OtherStart \/ OtherPullChunk \/ OtherPullEnd \/ OtherPullThrow
    \/ OtherAfterLoop

TwoSpec == TwoInit /\ [][TwoNext]_vars

(***************************************************************************)
(* One completion answered on both paths of handleAnthropicMessages: the   *)
(* backend's completed response is translated by                           *)
(* convertOpenAIToAnthropicResponse (part_002:125-141), and the same       *)
(* completion, delivered as a stream of one chunk, is transcoded by the    *)
(* generator (part_002:108-122).                                           *)
(***************************************************************************)
\* The finish reasons of the completions: those of the generator's
\* alphabet, and none.
CompletionFinishReasons == FinishReasons \cup {Null}

\* The tool_calls arrays of the completions.
CompletionToolCalls ==
    { <<>>,
      <<ToolCall("call_a", "f", "{}")>>,
      <<ToolCall("call_a", "f", "{\"a\""), ToolCall("call_b", "g", "7")>>,
      <<ToolCall("call_a", "f", "{\"a\":1}"), ToolCall("call_b", "g", "null"),
        ToolCall("call_c", "h", "[1]")>>,
      <<[ToolCall("call_a", "f", "{}") EXCEPT !.type = "custom"]>> }

Completions ==
    { Completion(content, TRUE, tool_calls, finish_reason) :
          content \in {Null, "", "hello"},
          tool_calls \in CompletionToolCalls,
          finish_reason \in CompletionFinishReasons }
    \cup
    { Completion(content, FALSE, <<>>, finish_reason) :
          content \in {Null, "", "hello"},
          finish_reason \in CompletionFinishReasons }
    \cup { CompletionWithoutChoices }

\* The completion as the one chunk of a stream: the k-th tool call is the
\* tool delta of index k - 1.
ChunkOf(response) ==
    IF ~response.has_choices THEN EnvelopeString(JsonText(EmptyChoices))
    ELSE Json(Choice(
           [content |-> response.content,
            has_tool_calls |-> response.has_tool_calls,
            tool_calls |->
                [k \in 1..Len(response.tool_calls) |->
                    ToolDelta(k - 1, response.tool_calls[k].id,
                              Function(response.tool_calls[k].name,
                                       response.tool_calls[k].arguments))]],
           response.finish_reason))

CompletionInit ==
    /\ Init
    /\ NoHandler
    /\ NoOther
    /\ NoConversion
    /\ NoEndpoint
    /\ NoRefresh
    /\ openaiResponse \in Completions
    /\ anthropicResponse = Untranslated

\* part_002:125-141: the non-streaming branch translates the response.
TranslateResponse ==
    /\ ~anthropicResponse.done
    /\ anthropicResponse' = convertOpenAIToAnthropicResponse(openaiResponse)
    /\ UNCHANGED <<pc, locals, out, consumed, loopExit, refresher, handler, other, endpoint,
                   openaiResponse, converter>>

\* The generator pulls the chunk of the completion.
StreamCompletion ==
    /\ consumed = <<>>
    /\ Pull({ChunkOf(openaiResponse)})

\* The stream of the completion has no second chunk.
StreamEnds ==
    /\ consumed # <<>>
    /\ PullEnd

CompletionNext ==
    Start \/ StreamCompletion \/ StreamEnds \/ AfterLoop \/ TranslateResponse

CompletionSpec == CompletionInit /\ [][CompletionNext]_vars

(***************************************************************************)
(* convertAnthropicToOpenAIMessages run on a request: one step for the     *)
(* system prompt, one for each iteration of the loop over the messages.    *)
(***************************************************************************)
\* Largest number of messages of a request.
MaxMessages == 2

\* The messages offered to the converter.
Messages ==
    { StringMessage("user", "hi"),
      StringMessage("assistant", "hello"),
      ArrayMessage("user", <<>>),
      ArrayMessage("user", <<ContentBlockText("only")>>),
      ArrayMessage("user", <<ContentBlockText("look"),
                             ContentBlockImage("base64", "data:image/png;base64,AAAA")>>),
      ArrayMessage("user", <<ContentBlockImage("url", Undefined)>>),
      ArrayMessage("user", <<ContentBlockText("and?"),
                             ContentBlockToolResult("toolu_1", StringResult("42"))>>),
      ArrayMessage("user", <<ContentBlockToolResult("toolu_1",
                                 ArrayResult(<<TextItem("42"), OtherItem("{\"k\":1}")>>)),
                             ContentBlockToolResult("toolu_2", MissingResult)>>),
      ArrayMessage("user", <<ContentBlockToolUse("toolu_1", "f", Input("{}"))>>),
      ArrayMessage("assistant", <<ContentBlockText("let me"),
                                  ContentBlockToolUse("toolu_1", "f", Input("{\"a\":1}"))>>),
      ArrayMessage("assistant", <<ContentBlockToolUse("toolu_1", "f", Input("{}")),
                                  ContentBlockToolUse("toolu_2", "g", UnserializableInput)>>),
      ArrayMessage("assistant", <<ContentBlockText("")>>),
      ArrayMessage("assistant", <<ContentBlockText("a"), ContentBlockText(""),
                                  ContentBlockText("b")>>),
      NullMessage("user") }

\* The system prompts offered to the converter.
Systems ==
    { NoSystem, StringSystem(""), StringSystem("be brief"),
      ArraySystem(<<ContentBlockText("be"), ContentBlockText("brief")>>) }

ConverterInit ==
    /\ Init
    /\ NoHandler
    /\ NoOther
    /\ NoResponse
    /\ NoEndpoint
    /\ NoRefresh
    /\ anthropicRequest \in
          { Request(system, messages) :
                system \in Systems,
                messages \in UNION {[1..n -> Messages] : n \in 0..MaxMessages} }
    /\ openaiMessages = <<>>
    /\ cpc = "system"
    /\ converted = 0

\* Lines 298-316: the system turn.
ConvertSystem ==
    /\ cpc = "system"
    /\ openaiMessages' = push(openaiMessages, SystemTurns(anthropicRequest.system))
    /\ cpc' = "messages"
    /\ UNCHANGED <<pc, locals, out, consumed, loopExit, refresher, handler, other, endpoint,
                   openaiResponse, anthropicResponse, anthropicRequest, converted>>

\* Lines 319-443: one iteration of the loop over anthropicMessages.
ConvertMessage ==
    /\ cpc = "messages"
    /\ converted < Len(anthropicRequest.messages)
    /\ openaiMessages' =
          push(openaiMessages,
               MessageTurns(anthropicRequest.messages[converted + 1], converted + 1))
    /\ converted' = converted + 1
    /\ UNCHANGED <<pc, locals, out, consumed, loopExit, refresher, handler, other, endpoint,
                   openaiResponse, anthropicResponse, anthropicRequest, cpc>>

\* Line 445: the loop is over; the function returns openaiMessages.
ReturnMessages ==
    /\ cpc = "messages"
    /\ converted = Len(anthropicRequest.messages)
    /\ cpc' = "returned"
    /\ UNCHANGED <<pc, locals, out, consumed, loopExit, refresher, handler, other, endpoint,
                   openaiResponse, anthropicResponse, anthropicRequest,
                   openaiMessages, converted>>

ConverterNext == ConvertSystem \/ ConvertMessage \/ ReturnMessages

ConverterSpec == ConverterInit /\ [][ConverterNext]_vars

(***************************************************************************)
(* A tool invocation that goes out and comes back: the request converter   *)
(* turns an assistant message with one tool_use block into a tool call,    *)
(* the backend answers with a message of one text and that tool call, and  *)
(* the response translator turns the answer into content blocks.           *)
(***************************************************************************)
\* The input objects of the tool_use blocks.  A request is parsed from JSON
\* text, so JSON.stringify gives the text of each of them.
ToolUseInputs == { Input("{}"), Input("{\"a\":1}") }

\* The tool_use blocks of the requests, and the requests.
ToolUseBlocksOfRequests ==
    { ContentBlockToolUse(id, name, input) :
          id \in {"toolu_1", "toolu_2"}, name \in {"f", "g"},
          input \in ToolUseInputs }
RoundTripRequests ==
    { Request(system, before \o <<ArrayMessage("assistant", <<block>>)>>) :
          system \in Systems,
          before \in {<<>>, <<StringMessage("user", "hi")>>},
          block \in ToolUseBlocksOfRequests }

RoundTripInit ==
    /\ Init
    /\ NoHandler
    /\ NoOther
    /\ NoResponse
    /\ NoEndpoint
    /\ NoRefresh
    /\ anthropicRequest \in RoundTripRequests
    /\ openaiMessages = <<>>
    /\ cpc = "system"
    /\ converted = 0

\* streaming.ts:318: the backend's message has one text and the tool call
\* of the last turn the converter returned.
ToolCallComesBack ==
    /\ cpc = "returned"
    /\ ~openaiResponse.has_choices
    /\ \E text \in {"hello", "ok"}, finish_reason \in {"tool_calls", "stop"} :
          openaiResponse' =
              Completion(text, TRUE,
                         openaiMessages[Len(openaiMessages)].tool_calls,
                         finish_reason)
    /\ UNCHANGED <<pc, locals, out, consumed, loopExit, refresher, handler, other, endpoint,
                   anthropicResponse, converter>>

\* part_002:125-130: the backend's message is translated.
TranslateMessage ==
    /\ openaiResponse.has_choices
    /\ TranslateResponse

RoundTripNext ==
    \/ ConvertSystem \/ ConvertMessage \/ ReturnMessages
    \/ ToolCallComesBack \/ TranslateMessage

RoundTripSpec == RoundTripInit /\ [][RoundTripNext]_vars

(***************************************************************************)
(* The two request handlers, from the body of the request to the answer.   *)
(* handleAnthropicMessages reads the body, builds the payload, calls the   *)
(* backend and answers with a message, with a stream, or from its catch    *)
(* block; handleAnthropicTokenCount answers with the token count.          *)
(***************************************************************************)
\* The tools and tool choices of the requests.
RequestTools ==
    { NoTools, Tools(<<>>),
      Tools(<<AnthropicTool("f", Undefined, "{\"type\":\"object\"}"),
              AnthropicTool("g", "search", "{}")>>) }
RequestToolChoices ==
    { NoToolChoice,
      AnthropicToolChoice("auto", Undefined),
      AnthropicToolChoice("any", Undefined),
      AnthropicToolChoice("tool", "f"),
      AnthropicToolChoice("tool", Undefined),
      AnthropicToolChoice("tool", ""),
      AnthropicToolChoice("none", Undefined),
      AnthropicToolChoice(Undefined, Undefined) }

\* Requests that differ in their optional properties.
OptionRequests ==
    { [Request(StringSystem("be brief"), <<StringMessage("user", "hi")>>) EXCEPT
          !.tools = tools, !.tool_choice = tool_choice,
          !.temperature = temperature, !.top_p = top_p,
          !.stop_sequences = stop_sequences, !.max_tokens = max_tokens,
          !.stream = stream] :
        tools \in RequestTools, tool_choice \in RequestToolChoices,
        temperature \in {Undefined, Null, "0"}, top_p \in {Undefined, "0.9"},
        stop_sequences \in {NoStopSequences, NullStopSequences,
                            StopSequences(<<>>), StopSequences(<<"END">>)},
        max_tokens \in {Undefined, "100"}, stream \in {Undefined, "true"} }

\* Requests that differ in their messages; the last three lack the
\* messages, lack the model, and carry a tool result without content.
MessageRequests ==
    { Request(NoSystem, <<StringMessage("user", "hi"),
                          StringMessage("assistant", "hello")>>),
      [Request(NoSystem,
               <<ArrayMessage("assistant",
                     <<ContentBlockText("let me"),
                       ContentBlockToolUse("toolu_1", "f", Input("{\"a\":1}"))>>),
                 ArrayMessage("user",
                     <<ContentBlockToolResult("toolu_1", StringResult("42"))>>)>>)
          EXCEPT !.stream = "true"],
      [Request(NoSystem, <<>>) EXCEPT !.has_messages = FALSE],
      [Request(NoSystem, <<StringMessage("user", "hi")>>) EXCEPT !.model = Undefined],
      Request(NoSystem,
              <<ArrayMessage("user",
                    <<ContentBlockToolResult("toolu_1", MissingResult)>>)>>) }

\* The bodies the two routes receive.
Bodies ==
    { Body("messages", request) : request \in OptionRequests \cup MessageRequests }
    \cup { Body("count_tokens", request) : request \in MessageRequests }
    \cup { UnparseableBody("messages"), UnparseableBody("count_tokens") }

\* What createChatCompletions throws (streaming.ts:276-320): the Error of
\* line 279, the TypeError of a fetch that fails, an HTTPError for a response
\* of the backend that is not ok.
BackendErrors ==
    { Error("Error", "Copilot token not found"),
      Error("TypeError", "fetch failed"),
      HTTPError(400), HTTPError(401), HTTPError(429), HTTPError(500),
      HTTPError(503) }

\* The completed responses of the backend.
BackendCompletions ==
    { Completion("hello", FALSE, <<>>, "stop"),
      Completion(Null, TRUE, <<ToolCall("call_a", "f", "{}")>>, "tool_calls"),
      CompletionWithoutChoices }

MessagesInit ==
    /\ Init
    /\ NoHandler
    /\ NoOther
    /\ NoTranslation
    /\ NoRefresh
    /\ mpc = "received"
    /\ body \in Bodies
    /\ openaiPayload = NoPayload
    /\ reply = NoReply
    /\ estimatedInputTokens = NoTokens

\* part_002:41: c.req.json() gives the request, or throws a SyntaxError that
\* the catch block answers.
ReadBody ==
    /\ mpc = "received"
    /\ body.path = "messages"
    /\ IF body.parses
       THEN /\ anthropicRequest' = body.json
            /\ mpc' = "parsed"
            /\ reply' = reply
       ELSE /\ anthropicRequest' = anthropicRequest
            /\ mpc' = "replied"
            /\ reply' = CatchReply(Error("SyntaxError", "Unexpected token"))
    /\ UNCHANGED <<pc, locals, out, consumed, loopExit, refresher, handler, other,
                   openaiResponse, anthropicResponse, openaiMessages, cpc, converted,
                   body, openaiPayload, estimatedInputTokens>>

\* The TypeErrors of lines 45-97: getTokenCount of a turn without content
\* (lines 45-50), the loop over messages that are missing (line 57), and
\* toLowerCase of a model that is missing (lines 67 and 215).
BuildThrows(request) ==
    \/ ~request.has_messages
    \/ TokenizerThrows(convertAnthropicToOpenAIMessages(request.messages,
                                                        request.system))
    \/ request.model = Undefined

\* part_002:45-97: the request is converted and the payload is built.
BuildPayload ==
    /\ mpc = "parsed"
    /\ IF BuildThrows(anthropicRequest)
       THEN /\ reply' = CatchReply(Error("TypeError", "is not iterable"))
            /\ mpc' = "replied"
            /\ UNCHANGED <<openaiMessages, openaiPayload>>
       ELSE /\ openaiMessages' =
                  convertAnthropicToOpenAIMessages(anthropicRequest.messages,
                                                   anthropicRequest.system)
            /\ openaiPayload' =
                  Payload(anthropicRequest, openaiMessages',
                          convertAnthropicToolsToOpenAI(anthropicRequest.tools),
                          convertAnthropicToolChoiceToOpenAI(
                              anthropicRequest.tool_choice))
            /\ mpc' = "built"
            /\ reply' = reply
    /\ UNCHANGED <<pc, locals, out, consumed, loopExit, refresher, handler, other,
                   openaiResponse, anthropicResponse, anthropicRequest, cpc,
                   converted, body, estimatedInputTokens>>

\* part_002:106 and 145-169, streaming.ts:279-312: createChatCompletions
\* throws.
BackendFails ==
    /\ mpc = "built"
    /\ \E error \in BackendErrors : reply' = CatchReply(error)
    /\ mpc' = "replied"
    /\ UNCHANGED <<pc, locals, out, consumed, loopExit, refresher, handler, other,
                   translators, body, openaiPayload, estimatedInputTokens>>

\* part_002:125-141, streaming.ts:318: the payload asks for no stream and
\* the backend's response is a completed one.
BackendCompletes ==
    /\ mpc = "built"
    /\ openaiPayload.stream = "false"
    /\ \E response \in BackendCompletions :
         /\ openaiResponse' = response
         /\ anthropicResponse' = convertOpenAIToAnthropicResponse(response)
    /\ reply' = Reply("message")
    /\ mpc' = "replied"
    /\ UNCHANGED <<pc, locals, out, consumed, loopExit, refresher, handler, other,
                   converter, body, openaiPayload, estimatedInputTokens>>

\* part_002:108-122, streaming.ts:314-316: the payload asks for a stream and
\* the backend's response is one; the callback of streamSSE computes the
\* estimate it hands to the generator.
BackendStreams ==
    /\ mpc = "built"
    /\ openaiPayload.stream = "true"
    /\ estimatedInputTokens' = getTokenCount(openaiMessages)
    /\ reply' = Reply("stream")
    /\ mpc' = "streaming"
    /\ UNCHANGED <<pc, locals, out, consumed, loopExit, refresher, handler, other,
                   translators, body, openaiPayload>>

\* part_002:143, streaming.ts:318: the payload asks for no stream and the
\* JSON of the backend's response has no choices property.
BackendUnexpected ==
    /\ mpc = "built"
    /\ openaiPayload.stream = "false"
    /\ reply' = CatchReply(Error("Error", "Unexpected response type from OpenAI"))
    /\ mpc' = "replied"
    /\ UNCHANGED <<pc, locals, out, consumed, loopExit, refresher, handler, other,
                   translators, body, openaiPayload, estimatedInputTokens>>

\* part_002:112-117: the generator is called and yields its first events.
StreamStarts ==
    /\ mpc = "streaming"
    /\ Start

\* part_002:172-211: handleAnthropicTokenCount.  The TypeErrors are those of
\* request.messages.length (line 178) and of getTokenCount.
CountTokens ==
    /\ mpc = "received"
    /\ body.path = "count_tokens"
    /\ IF ~body.parses
       THEN /\ reply' = TokenCountCatchReply(Error("SyntaxError", "Unexpected token"))
            /\ UNCHANGED <<anthropicRequest, openaiMessages>>
       ELSE /\ anthropicRequest' = body.json
            /\ IF \/ ~body.json.has_messages
                  \/ TokenizerThrows(convertAnthropicToOpenAIMessages(
                                         body.json.messages, body.json.system))
               THEN /\ reply' = TokenCountCatchReply(
                                    Error("TypeError", "Cannot read properties"))
                    /\ openaiMessages' = openaiMessages
               ELSE /\ openaiMessages' =
                          convertAnthropicToOpenAIMessages(body.json.messages,
                                                           body.json.system)
                    /\ reply' = [Reply("token_count") EXCEPT
                                    !.input_tokens = getTokenCount(openaiMessages')]
    /\ mpc' = "replied"
    /\ UNCHANGED <<pc, locals, out, consumed, loopExit, refresher, handler, other,
                   openaiResponse, anthropicResponse, cpc, converted,
                   body, openaiPayload, estimatedInputTokens>>

MessagesNext ==
    \/ ReadBody \/ BuildPayload
    \/ BackendFails \/ BackendCompletes \/ BackendStreams \/ BackendUnexpected
    \/ StreamStarts \/ CountTokens

MessagesSpec == MessagesInit /\ [][MessagesNext]_vars

(***************************************************************************)
(* setupCopilotToken and its interval callback (part_001:35-73).  A call   *)
(* runs up to its await, and resumes when getCopilotToken has settled; so  *)
(* does a run of the callback.  Calls may be made while earlier calls and  *)
(* callbacks are still awaiting.                                           *)
(***************************************************************************)
\* part_001:36-42: a call clears the interval it finds and awaits
\* getCopilotToken.
SetupStarts ==
    /\ Len(setups) < MaxSetups
    /\ timers' = IF refreshIntervalId # Null THEN timers \ {refreshIntervalId}
                 ELSE timers
    /\ refreshIntervalId' = Null
    /\ setups' = Append(setups, "awaiting")
    /\ UNCHANGED <<refreshFailureCount, copilotToken, callbacks>>
    /\ UNCHANGED <<pc, locals, out, consumed, loopExit, handler, other,
                   translators, endpoint>>

\* part_001:42-72: getCopilotToken resolves; the call stores the token,
\* resets the count and starts an interval, whose id it keeps.
SetupResumes ==
    /\ \E c \in DOMAIN setups, token \in Tokens :
         /\ setups[c] = "awaiting"
         /\ copilotToken' = token
         /\ setups' = [setups EXCEPT ![c] = "done"]
    /\ refreshFailureCount' = 0
    /\ refreshIntervalId' = Timer(Cardinality(SetupsDone) + 1)
    /\ timers' = timers \cup {refreshIntervalId'}
    /\ UNCHANGED callbacks
    /\ UNCHANGED <<pc, locals, out, consumed, loopExit, handler, other,
                   translators, endpoint>>

\* part_001:42: getCopilotToken rejects, and so does the call.
SetupRejects ==
    /\ \E c \in DOMAIN setups :
         /\ setups[c] = "awaiting"
         /\ setups' = [setups EXCEPT ![c] = "rejected"]
    /\ UNCHANGED <<refreshIntervalId, refreshFailureCount, copilotToken, timers,
                   callbacks>>
    /\ UNCHANGED <<pc, locals, out, consumed, loopExit, handler, other,
                   translators, endpoint>>

\* part_001:49-52: an active interval fires; its callback awaits
\* getCopilotToken.
Tick ==
    /\ Len(callbacks) < MaxTicks
    /\ \E timer \in timers :
         callbacks' = Append(callbacks, Callback(timer, "awaiting"))
    /\ UNCHANGED <<refreshIntervalId, refreshFailureCount, copilotToken, timers,
                   setups>>
    /\ UNCHANGED <<pc, locals, out, consumed, loopExit, handler, other,
                   translators, endpoint>>

\* part_001:52-56: getCopilotToken resolves in a callback.
RefreshSucceeds ==
    /\ \E n \in DOMAIN callbacks, token \in Tokens :
         /\ callbacks[n].status = "awaiting"
         /\ copilotToken' = token
         /\ callbacks' = [callbacks EXCEPT ![n].status = "refreshed"]
    /\ refreshFailureCount' = 0
    /\ UNCHANGED <<refreshIntervalId, timers, setups>>
    /\ UNCHANGED <<pc, locals, out, consumed, loopExit, handler, other,
                   translators, endpoint>>

\* part_001:57-71: getCopilotToken rejects in a callback; the catch block
\* counts the failure and the callback returns.
RefreshFails ==
    /\ \E n \in DOMAIN callbacks :
         /\ callbacks[n].status = "awaiting"
         /\ callbacks' = [callbacks EXCEPT ![n].status = "caught"]
    /\ refreshFailureCount' = CatchRefreshFailure(refreshFailureCount)
    /\ UNCHANGED <<refreshIntervalId, copilotToken, timers, setups>>
    /\ UNCHANGED <<pc, locals, out, consumed, loopExit, handler, other,
                   translators, endpoint>>

RefreshNext ==
    \/ SetupStarts \/ SetupResumes \/ SetupRejects
    \/ Tick \/ RefreshSucceeds \/ RefreshFails

\* The module after its load, and nothing else running.
RefreshInit == Init /\ Alone

RefreshSpec == RefreshInit /\ [][RefreshNext]_vars

(***************************************************************************)
(* Observations of the emitted stream and of the consumed chunks, used by  *)
(* the properties below.                                                   *)
(***************************************************************************)
Positions(type) == {i \in 1..Len(out) : out[i].type = type}
Count(type) == Cardinality(Positions(type))
Last(seq) == seq[Len(seq)]

BlockStarts == Positions("content_block_start")
ToolStarts == {i \in BlockStarts : out[i].block = "tool_use"}
StopsAfter(i) ==
    {j \in (i + 1)..Len(out) :
        out[j].type = "content_block_stop" /\ out[j].index = out[i].index}

\* The generator returned without going through its catch block.
EndedNormally == pc = "done" /\ loopExit \in {"break", "exhausted"}

\* The chunk's first choice, when the code gets as far as reading it.
ReadsChoice(chunk) ==
    /\ ParseChunk(chunk).ok
    /\ ~ParseChunk(chunk).value.isNull
    /\ ParseChunk(chunk).value.has_choices
    /\ Len(ParseChunk(chunk).value.choices) > 0
ChoiceOf(chunk) == ParseChunk(chunk).value.choices[1]

\* The chunk carries a finish reason.
FinishPresent(chunk) ==
    ReadsChoice(chunk) /\ Truthy(ChoiceOf(chunk).finish_reason)

\* The argument fragments a sequence of tool-call deltas carries for source
\* tool index k, concatenated in order.
RECURSIVE ArgumentsIn(_, _)
ArgumentsIn(tool_calls, k) ==
    IF tool_calls = <<>> THEN ""
    ELSE LET d == Head(tool_calls)
         IN  (IF ~d.isNull /\ d.index = k /\ d.function.defined
                   /\ Truthy(d.function.arguments)
              THEN d.function.arguments ELSE "")
             \o ArgumentsIn(Tail(tool_calls), k)

\* All argument fragments received for source tool index k in the first n
\* consumed chunks, concatenated in arrival order.
RECURSIVE ReceivedArguments(_, _)
ReceivedArguments(k, n) ==
    IF n = 0 THEN ""
    ELSE ReceivedArguments(k, n - 1)
         \o (IF ReadsChoice(consumed[n]) /\ ChoiceOf(consumed[n]).has_delta
                  /\ ChoiceOf(consumed[n]).delta.has_tool_calls
             THEN ArgumentsIn(ChoiceOf(consumed[n]).delta.tool_calls, k)
             ELSE "")

\* The partial_json values emitted for block b in the first n events,
\* concatenated in emission order.
RECURSIVE EmittedJson(_, _)
EmittedJson(b, n) ==
    IF n = 0 THEN ""
    ELSE EmittedJson(b, n - 1)
         \o (IF out[n].type = "content_block_delta"
                  /\ out[n].block = "input_json_delta" /\ out[n].index = b
             THEN out[n].text ELSE "")

(***************************************************************************)
(* Properties of the streaming transcoder.                                 *)
(***************************************************************************)

\* C1 (as stated): when the stream has ended, whatever way it ended, every
\* content_block_start is followed by exactly one content_block_stop with the
\* same index.
C1_EveryStartStoppedOnEveryStream ==
    pc = "done" =>
        \A i \in BlockStarts : Cardinality(StopsAfter(i)) = 1

\* C1 (amended): on every stream that does not end with an error event, every
\* content_block_start is followed, before the stream ends, by exactly one
\* content_block_stop with the same index.
C1_EveryStartStoppedUnlessError ==
    (pc = "done" /\ Last(out).type # "error") =>
        \A i \in BlockStarts : Cardinality(StopsAfter(i)) = 1

\* C1 witness: the upstream ended without a finish reason after a text block
\* and a tool block were started, and the stream is complete.
C1_Witness ==
    /\ pc = "done"
    /\ loopExit = "exhausted"
    /\ \E i \in BlockStarts : out[i].block = "text"
    /\ ToolStarts # {}

\* C2: when the stream has ended without an exception, every input_json_delta
\* of a started tool block comes after that block's content_block_start, and
\* the partial_json values emitted for the block, concatenated, are all the
\* argument fragments received for its source tool index, concatenated.
C2_BufferedArgumentsFlushed ==
    EndedNormally =>
        \A k \in DOMAIN openaiToolIdxToAnthropicBlockIdx :
            LET b == openaiToolIdxToAnthropicBlockIdx[k]
            IN  Has(sentToolBlockStarts, b) =>
                  /\ \A j \in Positions("content_block_delta") :
                        out[j].index = b =>
                            \E i \in ToolStarts : i < j /\ out[i].index = b
                  /\ EmittedJson(b, Len(out)) = ReceivedArguments(k, Len(consumed))

\* C3: the stream is empty until the generator runs, and from then on it
\* begins with one message_start immediately followed by one ping, no other
\* message_start or ping follows, and no chunk is pulled before the two.
C3_MessageStartThenPingFirst ==
    /\ pc = "start" => (out = <<>> /\ consumed = <<>>)
    /\ pc # "start" =>
          /\ Len(out) >= 2
          /\ out[1].type = "message_start"
          /\ out[2].type = "ping"
          /\ Count("message_start") = 1
          /\ Count("ping") = 1

\* C3 witness: the upstream failed on the first pull; the stream is
\* message_start, ping, error.
C3_Witness ==
    /\ pc = "done"
    /\ consumed = <<>>
    /\ loopExit = "threw"
    /\ Len(out) = 3

\* C4: on a stream that terminated normally there is exactly one
\* message_delta, it comes after every content_block_stop, and it is followed
\* by exactly one message_stop, the last event.
C4_OneMessageDeltaThenMessageStop ==
    EndedNormally =>
        /\ Count("message_delta") = 1
        /\ Count("message_stop") = 1
        /\ Len(out) >= 2
        /\ out[Len(out)].type = "message_stop"
        /\ out[Len(out) - 1].type = "message_delta"
        /\ \A i \in Positions("content_block_stop") : i < Len(out) - 1

\* C4 witness: a finish reason ended the loop and two blocks were stopped.
C4_Witness ==
    /\ pc = "done"
    /\ loopExit = "break"
    /\ Count("content_block_stop") = 2

\* C5: the stream holds at most one error event; when an exception occurred
\* it holds exactly one, as its last event, and no message_delta and no
\* message_stop; error and message_stop never occur in the same stream.
C5_ErrorIsSingleAndLast ==
    /\ Count("error") <= 1
    /\ loopExit = "threw" =>
          /\ pc = "done"
          /\ Count("error") = 1
          /\ Last(out).type = "error"
          /\ Count("message_delta") = 0
          /\ Count("message_stop") = 0
    /\ ~(Count("error") > 0 /\ Count("message_stop") > 0)
    /\ Count("error") > 0 => loopExit = "threw"

\* C5 witness: processing a parsed chunk failed after the chunk's text had
\* been emitted.
C5_Witness ==
    /\ loopExit = "threw"
    /\ consumed # <<>>
    /\ Last(consumed) \in ThrowingChunks
    /\ Count("content_block_delta") > 0
    /\ out[Len(out) - 1].type = "content_block_delta"

\* C6 (as stated): when the upstream ends without a finish reason, the
\* generator emits nothing after the events of the last chunk.
C6_NothingEmittedAfterExhaustion ==
    [][(pc = "after_loop" /\ loopExit = "exhausted") => out' = out]_vars

\* C6 (amended): when the upstream ends without a finish reason, the
\* generator completes the stream as it does after a finish reason: it emits
\* one content_block_stop for each block it started, then one message_delta
\* with stop_reason end_turn, then message_stop, and returns.
C6_ExhaustionClosesTheStream ==
    [][(pc = "after_loop" /\ loopExit = "exhausted") =>
          LET n == Len(out)
              m == Len(out')
          IN  /\ pc' = "done"
              /\ m = n + Cardinality(BlockStarts) + 2
              /\ SubSeq(out', 1, n) = out
              /\ \A j \in (n + 1)..(m - 2) : out'[j].type = "content_block_stop"
              /\ {out'[j].index : j \in (n + 1)..(m - 2)}
                    = {out[i].index : i \in BlockStarts}
              /\ out'[m - 1].type = "message_delta"
              /\ out'[m - 1].stop_reason = "end_turn"
              /\ out'[m].type = "message_stop"]_vars

\* C6 witness: the upstream ended without a finish reason while a block was
\* open, and the generator has returned.
C6_Witness ==
    /\ pc = "done"
    /\ loopExit = "exhausted"
    /\ BlockStarts # {}
    /\ consumed # <<>>

\* The StopReason table as the specification states it.
StopReasonTable(reason) ==
    CASE reason = "stop" -> "end_turn"
      [] reason = "length" -> "max_tokens"
      [] reason = "tool_calls" -> "tool_use"
      [] reason = "function_call" -> "tool_use"
      [] reason = "content_filter" -> "stop_sequence"
      [] OTHER -> "end_turn"

\* C7: when a finish reason ended the loop, the stop_reason of the final
\* message_delta is the StopReason-table image of that finish reason, and
\* end_turn for every value the table does not list.
C7_StopReasonIsTableImage ==
    (pc = "done" /\ loopExit = "break") =>
        \A i \in Positions("message_delta") :
            out[i].stop_reason = StopReasonTable(ChoiceOf(Last(consumed)).finish_reason)

\* C8: a chunk that carries a finish reason is the last chunk pulled, and
\* once it has been processed the generator is past its loop.
C8_NoPullAfterFinishReason ==
    \A i \in 1..Len(consumed) :
        FinishPresent(consumed[i]) =>
            /\ i = Len(consumed)
            /\ pc \in {"after_loop", "done"}

\* C8 witness: a finish reason ended the loop while the upstream could still
\* have delivered chunks.
C8_Witness ==
    /\ pc = "done"
    /\ loopExit = "break"
    /\ Len(consumed) < MaxChunks

\* C9: a tool block's content_block_start is emitted at most once, carries a
\* concrete id and a non-empty name, which the block's state holds from then
\* on, and no event with the block's index precedes it; a tool block that was
\* not started has no event at all.
C9_ToolStartOnceAndOnlyWhenOpenable ==
    /\ \A i \in ToolStarts :
          /\ Truthy(out[i].id)
          /\ ~StartsWith(out[i].id, "tool_ph_")
          /\ Truthy(out[i].name)
          /\ \A j \in 1..(i - 1) : out[j].index # out[i].index
          /\ \A j \in ToolStarts : j # i => out[j].index # out[i].index
          /\ Has(sentToolBlockStarts, out[i].index)
    /\ \A b \in DOMAIN toolStates :
          IF Has(sentToolBlockStarts, b)
          THEN /\ Truthy(toolStates[b].id)
               /\ ~StartsWith(toolStates[b].id, "tool_ph_")
               /\ Truthy(toolStates[b].name)
               /\ \E i \in ToolStarts : out[i].index = b
          ELSE \A j \in 1..Len(out) : out[j].index # b

\* C9 witness: a tool block was started after an earlier chunk for it had
\* been buffered without an id and a name.
C9_Witness ==
    /\ Len(consumed) >= 2
    /\ consumed[1] = ToolChunk(0, Undefined, Function(Undefined, "{\"a\""))
    /\ \E i \in ToolStarts : out[i].index = 0

\* C10: the indices of the content_block_start events of a stream are
\* strictly increasing in the order the events are emitted.
C10_StartIndicesIncreaseOnTheWire ==
    \A i, j \in BlockStarts : i < j => out[i].index < out[j].index


\* The destination indices allocated so far: the text block's and the tool
\* blocks'.
AllocatedIndices ==
    {openaiToolIdxToAnthropicBlockIdx[k] : k \in DOMAIN openaiToolIdxToAnthropicBlockIdx}
    \cup (IF textBlockAnthropicIdx = NullIdx THEN {} ELSE {textBlockAnthropicIdx})

\* C11: the destination indices allocated are 0, 1, 2, ... without gaps, no
\* two source tool indices and no tool and the text block share one, a block
\* seen for the first time takes an index greater than every index allocated
\* before, and an index once given to a source tool index or to the text block
\* never changes.
C11_IndexAllocationIncreasingStableInjective ==
    /\ [](/\ AllocatedIndices = 0..(nextAnthropicBlockIdx - 1)
          /\ Cardinality(DOMAIN openaiToolIdxToAnthropicBlockIdx)
               + (IF textBlockAnthropicIdx = NullIdx THEN 0 ELSE 1)
             = nextAnthropicBlockIdx
          /\ DOMAIN toolStates
             = {openaiToolIdxToAnthropicBlockIdx[k] :
                   k \in DOMAIN openaiToolIdxToAnthropicBlockIdx})
    /\ [][/\ \A k \in DOMAIN openaiToolIdxToAnthropicBlockIdx :
                /\ k \in DOMAIN openaiToolIdxToAnthropicBlockIdx'
                /\ openaiToolIdxToAnthropicBlockIdx'[k]
                     = openaiToolIdxToAnthropicBlockIdx[k]
          /\ textBlockAnthropicIdx # NullIdx =>
                textBlockAnthropicIdx' = textBlockAnthropicIdx
          /\ \A k \in DOMAIN openaiToolIdxToAnthropicBlockIdx'
                        \ DOMAIN openaiToolIdxToAnthropicBlockIdx :
                \A a \in AllocatedIndices : openaiToolIdxToAnthropicBlockIdx'[k] > a
          /\ (textBlockAnthropicIdx = NullIdx /\ textBlockAnthropicIdx' # NullIdx) =>
                \A a \in AllocatedIndices : textBlockAnthropicIdx' > a]_vars

\* C11 witness: source tool index 1 was seen first, then the text block,
\* then source tool index 0; the destination indices are 0, 1 and 2.
C11_Witness ==
    /\ DOMAIN openaiToolIdxToAnthropicBlockIdx = {0, 1}
    /\ openaiToolIdxToAnthropicBlockIdx[1] = 0
    /\ textBlockAnthropicIdx = 1
    /\ openaiToolIdxToAnthropicBlockIdx[0] = 2

\* The content_block_start events of type text.
TextStarts == {i \in BlockStarts : out[i].block = "text"}

\* C12: at most one content_block_start of type text is emitted, and every
\* text_delta carries the index of that block and follows its start.
C12_AtMostOneTextBlock ==
    /\ Cardinality(TextStarts) <= 1
    /\ \A j \in Positions("content_block_delta") :
          out[j].block = "text_delta" =>
              \E i \in TextStarts : i < j /\ out[i].index = out[j].index

\* C12 witness: text arrived in two chunks with a tool block started in
\* between.
C12_Witness ==
    \E i, j, k \in 1..Len(out) :
        /\ i < j /\ j < k
        /\ out[i].block = "text_delta"
        /\ out[j].block = "tool_use"
        /\ out[k].block = "text_delta"

\* A chunk that cannot be parsed: a string that is not JSON, or an envelope
\* whose data is a string that is not JSON.
Unparseable(chunk) ==
    \/ chunk.shape = "string" /\ ~chunk.text.valid
    \/ chunk.shape = "envelope" /\ chunk.data = "string" /\ ~chunk.text.valid

\* C13: pulling a chunk that cannot be parsed emits no event, changes no
\* local of the transcoder and leaves it in its loop.
C13_UnparseableChunkSkipped ==
    [][(Len(consumed') = Len(consumed) + 1 /\ Unparseable(Last(consumed'))) =>
          /\ out' = out
          /\ locals' = locals
          /\ pc' = "loop"
          /\ loopExit' = loopExit]_vars

\* C13 witness: an unparseable chunk came between two text chunks and both
\* texts were emitted; the stream then ended normally.
C13_Witness ==
    /\ EndedNormally
    /\ Len(consumed) = 3
    /\ Unparseable(consumed[2])
    /\ Cardinality({j \in Positions("content_block_delta") :
                       out[j].block = "text_delta"}) = 2

\* The stream is in a terminal state: finished_ok or finished_error.
Finished ==
    /\ pc = "done"
    /\ out # <<>>
    /\ \/ Last(out).type = "message_stop" /\ Count("error") = 0
       \/ Last(out).type = "error" /\ Count("message_stop") = 0

\* C14: on a finite upstream the transcoder eventually returns, it has then
\* emitted message_stop or error as its last event, and it emits nothing
\* afterwards.
C14_TerminatesInFinishedState ==
    /\ <>(pc = "done")
    /\ [](pc = "done" => Finished)
    /\ [][pc = "done" => (pc' = "done" /\ out' = out)]_vars

\* C14 witness: the transcoder returned after the upstream delivered as many
\* chunks as it may.
C14_Witness ==
    /\ Finished
    /\ Len(consumed) >= MaxChunks


\* C15: whenever the generator pulls from the upstream (a chunk, the end of
\* the sequence or a failure), every event it has yielded so far has been
\* written to the transport and the write has completed; the events written
\* are always a prefix of the events yielded, at most one write is pending.
C15_EventsWrittenBeforeNextPull ==
    /\ [][(pc = "loop" /\ <<pc, out, consumed>>' # <<pc, out, consumed>>) =>
             (written = out /\ inflight = <<>>)]_vars
    /\ [](/\ Handed <= Len(out)
          /\ Len(inflight) <= 1
          /\ written \o inflight = SubSeq(out, 1, Handed))

\* C15 witness: at least two chunks were pulled, one of them yielding
\* several events; the stream ended and all its events have been written.
C15_Witness ==
    /\ hpc = "done"
    /\ Len(consumed) >= 2
    /\ Len(out) >= 9
    /\ written = out
    /\ EndedNormally


\* The locals of an invocation run alone on the chunks, with all the events
\* it yielded while processing them.
RECURSIVE Feed(_, _)
Feed(s, chunks) ==
    IF chunks = <<>> THEN s
    ELSE Feed(ProcessChunk(s, Head(chunks)), Tail(chunks))

\* The events of an invocation that runs alone, has pulled the chunks and is
\* at position p, having left its loop by exit.
AloneOut(p, exit, chunks) ==
    IF p = "start" THEN <<>>
    ELSE StartEvents \o Feed(NewLocals, chunks).yielded
         \o (IF p = "done" /\ exit = "threw" THEN CatchEvents
             ELSE IF p = "done" THEN AfterLoopEvents(Feed(NewLocals, chunks))
             ELSE <<>>)

\* C16: with the steps of two invocations interleaved in any way, each one
\* has emitted what it emits when it runs alone on its own chunks, and a step
\* of one changes nothing of the other.
C16_InvocationsIndependent ==
    /\ [](/\ out = AloneOut(pc, loopExit, consumed)
          /\ other.out = AloneOut(other.pc, other.loopExit, other.consumed))
    /\ [][/\ other' # other => <<pc, locals, out, consumed, loopExit>>'
                               = <<pc, locals, out, consumed, loopExit>>
          /\ <<pc, locals, out, consumed, loopExit>>'
                # <<pc, locals, out, consumed, loopExit>> => other' = other]_vars

\* C16 witness: both invocations are in their loops; the first has opened a
\* text block and a tool block, the second a tool block only, at index 0,
\* after the first one's counter had advanced.
C16_Witness ==
    /\ pc = "loop" /\ other.pc = "loop"
    /\ nextAnthropicBlockIdx = 2
    /\ other.s.nextAnthropicBlockIdx = 1
    /\ Len(other.out) = 4
    /\ other.out[3].type = "content_block_start"
    /\ other.out[3].index = 0


\* C17: a completion answered on both paths gets the same stop reason: the
\* stop_reason of the stream's message_delta is the stop_reason of the
\* translated response as it is serialized, for every finish reason, with
\* and without tool calls.
C17_BothPathsSameStopReason ==
    (pc = "done" /\ consumed # <<>> /\ anthropicResponse.done) =>
        /\ Count("message_delta") = 1
        /\ \A i \in Positions("message_delta") :
              out[i].stop_reason = JSONStringifyValue(anthropicResponse.stop_reason)
        /\ finalAnthropicStopReason = anthropicResponse.stop_reason

\* C17 witness: a completion with finish reason tool_calls and no tool_calls
\* property was streamed and translated; both say tool_use.
C17_Witness ==
    /\ pc = "done" /\ consumed # <<>> /\ anthropicResponse.done
    /\ openaiResponse.finish_reason = "tool_calls"
    /\ ~openaiResponse.has_tool_calls
    /\ anthropicResponse.stop_reason = "tool_use"
    /\ \E i \in Positions("message_delta") : out[i].stop_reason = "tool_use"

\* C18 as stated: applying the stop-reason mapping to its own result yields
\* that result again.
C18_StopReasonMappingIdempotent ==
    /\ anthropicResponse.done =>
          anthropicStopReason(anthropicResponse.stop_reason,
                              openaiResponse.has_tool_calls)
          = anthropicResponse.stop_reason
    /\ (pc = "done" /\ consumed # <<>>) =>
          StopReasonFor(finalAnthropicStopReason) = finalAnthropicStopReason

\* C18 as amended: no stop reason is a key of the table, so applying the
\* mapping to its own result yields end_turn, on both paths; it is the result
\* of one application only when that result is end_turn.
C18_SecondApplicationYieldsEndTurn ==
    /\ anthropicResponse.done =>
          anthropicStopReason(anthropicResponse.stop_reason,
                              openaiResponse.has_tool_calls) = "end_turn"
    /\ (pc = "done" /\ consumed # <<>>) =>
          StopReasonFor(finalAnthropicStopReason) = "end_turn"

\* C18 witness: finish reason length was mapped to max_tokens on both paths.
C18_Witness ==
    /\ anthropicResponse.done /\ pc = "done" /\ consumed # <<>>
    /\ openaiResponse.finish_reason = "length"
    /\ anthropicResponse.stop_reason = "max_tokens"
    /\ finalAnthropicStopReason = "max_tokens"


\* The turns come in the order of the messages they come from, the system
\* turn before all of them.
SourceOrderPreserved ==
    \A a, b \in 1..Len(openaiMessages) :
        a < b => openaiMessages[a].source <= openaiMessages[b].source

\* No tool turn stands before an assistant turn that has a tool call with
\* the tool turn's id.
ToolTurnsFollowTheirCalls ==
    \A a, b \in 1..Len(openaiMessages) :
        (/\ openaiMessages[a].role = "tool"
         /\ openaiMessages[b].role = "assistant"
         /\ \E k \in 1..Len(openaiMessages[b].tool_calls) :
               openaiMessages[b].tool_calls[k].id = openaiMessages[a].tool_call_id)
        => b < a

\* In the request, no tool_result block of a user message stands in a
\* message before an assistant message with a tool_use block of its id.
ResultsFollowUsesInRequest ==
    \A i, j \in 1..Len(anthropicRequest.messages) :
        LET result == anthropicRequest.messages[i]
            use == anthropicRequest.messages[j]
        IN  (/\ result.role = "user" /\ use.role = "assistant"
             /\ \E x \in 1..Len(result.blocks), y \in 1..Len(use.blocks) :
                   /\ result.blocks[x].type = "tool_result"
                   /\ use.blocks[y].type = "tool_use"
                   /\ result.blocks[x].tool_use_id = use.blocks[y].id)
            => j < i

\* C19 as stated: for every request the turns keep the order of the source
\* messages, system turn first, and no tool turn stands before the
\* assistant turn that carries the tool call of its id.
C19_OrderKeptAndToolTurnsAfterCalls ==
    SourceOrderPreserved /\ ToolTurnsFollowTheirCalls

\* C19 as amended: for every request the turns keep the order of the source
\* messages, system turn first; no tool turn stands before the assistant
\* turn that carries the tool call of its id when the request itself has
\* every tool result after the tool use of its id.
C19_OrderKeptAndToolTurnsAfterCallsOfOrderedRequest ==
    /\ SourceOrderPreserved
    /\ ResultsFollowUsesInRequest => ToolTurnsFollowTheirCalls

\* C19 witness: system prompt, an assistant message with text and a tool
\* use, then a user message with the tool result and a text, converted to
\* system, assistant, assistant, tool and user turns.
C19_Witness ==
    /\ cpc = "returned"
    /\ Len(openaiMessages) = 5
    /\ [k \in 1..5 |-> openaiMessages[k].role]
         = <<"system", "assistant", "assistant", "tool", "user">>
    /\ openaiMessages[4].tool_call_id = openaiMessages[3].tool_calls[1].id
    /\ [k \in 1..5 |-> openaiMessages[k].source] = <<0, 1, 1, 2, 2>>

\* C20: a turn has null content exactly when it carries tool calls, and
\* then at least one; a tool turn, a user turn, a system turn and an
\* assistant turn without tool calls have content that is not null.
C20_NullContentOnlyWithToolCalls ==
    \A a \in 1..Len(openaiMessages) :
        /\ openaiMessages[a].content.kind = "null" =>
              (openaiMessages[a].role = "assistant"
               /\ Len(openaiMessages[a].tool_calls) >= 1)
        /\ Len(openaiMessages[a].tool_calls) = 0 =>
              openaiMessages[a].content.kind # "null"

\* C20 witness: the converter returned an assistant turn with null content
\* and two tool calls, and an assistant turn with empty text and none.
C20_Witness ==
    /\ cpc = "returned"
    /\ \E a, b \in 1..Len(openaiMessages) :
          /\ openaiMessages[a].content.kind = "null"
          /\ Len(openaiMessages[a].tool_calls) = 2
          /\ openaiMessages[b].role = "assistant"
          /\ openaiMessages[b].content = StringContent("")
          /\ openaiMessages[b].tool_calls = <<>>

\* The tool choice the claim C21 expects for a request's tool_choice: a
\* forced function for a tool with a name, "auto" for everything else.
AutoUnlessNamedTool(choice) ==
    IF choice.present /\ choice.type = "tool"
       /\ choice.name # Undefined /\ choice.name # Null /\ choice.name # ""
    THEN FunctionChoice(choice.name)
    ELSE StringChoice("auto")

\* C21 as stated: the tool choice of every request, an absent one included,
\* is converted to "auto" unless it is a tool with a name, which is converted
\* to the forced function of that name.
C21_ToolChoiceAutoUnlessNamedTool ==
    openaiPayload.built =>
        convertAnthropicToolChoiceToOpenAI(anthropicRequest.tool_choice)
            = AutoUnlessNamedTool(anthropicRequest.tool_choice)

\* C21 amended: a tool choice that is present is converted to "auto" unless
\* it is a tool with a name, which is converted to the forced function of that
\* name, and the payload carries the result; an absent tool choice is
\* converted to undefined and the payload has no tool_choice.
C21_AbsentToolChoiceStaysAbsent ==
    openaiPayload.built =>
        IF anthropicRequest.tool_choice.present
        THEN /\ convertAnthropicToolChoiceToOpenAI(anthropicRequest.tool_choice)
                    = AutoUnlessNamedTool(anthropicRequest.tool_choice)
             /\ openaiPayload.tool_choice
                    = AutoUnlessNamedTool(anthropicRequest.tool_choice)
        ELSE /\ convertAnthropicToolChoiceToOpenAI(anthropicRequest.tool_choice)
                    = UndefinedChoice
             /\ openaiPayload.tool_choice = AbsentChoice

\* C21 witness: a payload has been built for a request that lists tools and
\* has no tool_choice, and the payload has none either.
C21_Witness ==
    /\ mpc = "built"
    /\ ~anthropicRequest.tool_choice.present
    /\ anthropicRequest.tools.present
    /\ openaiPayload.tools.present
    /\ openaiPayload.tool_choice = AbsentChoice

\* C28: the payload has tools only when the request lists at least one tool,
\* and then never an empty array; it has temperature, top_p and stop only
\* when the request has the corresponding property, with the request's
\* value; a property the request lacks is not set on the payload, not even
\* to null.
C28_OptionalFieldsOnlyWhenPresent ==
    openaiPayload.built =>
        /\ openaiPayload.tools.present
               <=> (anthropicRequest.tools.present
                    /\ Len(anthropicRequest.tools.items) >= 1)
        /\ openaiPayload.tools.present
               => Len(openaiPayload.tools.items) = Len(anthropicRequest.tools.items)
        /\ anthropicRequest.temperature = Undefined
               => openaiPayload.temperature = Absent
        /\ anthropicRequest.temperature # Undefined
               => openaiPayload.temperature = anthropicRequest.temperature
        /\ anthropicRequest.top_p = Undefined => openaiPayload.top_p = Absent
        /\ anthropicRequest.top_p # Undefined
               => openaiPayload.top_p = anthropicRequest.top_p
        /\ anthropicRequest.stop_sequences.kind # "array"
               => openaiPayload.stop = NoStop
        /\ anthropicRequest.stop_sequences.kind = "array"
               => openaiPayload.stop = Stop(anthropicRequest.stop_sequences.items)

\* C28 witness: a payload built for a request with an empty tools array, no
\* temperature, no stop_sequences and a top_p: it has top_p alone.
C28_Witness ==
    /\ mpc = "built"
    /\ anthropicRequest.tools = Tools(<<>>)
    /\ anthropicRequest.temperature = Undefined
    /\ anthropicRequest.stop_sequences = NoStopSequences
    /\ anthropicRequest.top_p = "0.9"
    /\ openaiPayload.tools = NoTools
    /\ openaiPayload.temperature = Absent
    /\ openaiPayload.stop = NoStop
    /\ openaiPayload.top_p = "0.9"

\* The failure the handler of the messages route has answered was caused by
\* the client's input: it happened before the backend was called.
ClientCausedFailure == ~openaiPayload.built

\* C27: every failure of handleAnthropicMessages is answered with the
\* envelope {type: error, error: {type, message}}, with a 4xx status when the
\* client's input caused it (an unparseable body, for one) and a 5xx status
\* when the backend failed.
C27_ErrorEnvelopeWithStatusClass ==
    (body.path = "messages" /\ reply.sent /\ reply.type = "error") =>
        /\ reply.error_type # Undefined
        /\ reply.message # Undefined
        /\ ClientCausedFailure => reply.status >= 400 /\ reply.status < 500
        /\ ~ClientCausedFailure => reply.status >= 500 /\ reply.status < 600

\* C29: usage.input_tokens of message_start on the streaming path, and
\* input_tokens of the answer of the count_tokens route, is the integer that
\* estimates the input tokens of the translated messages: the input
\* component of the estimator's result.
C29_InputTokensIsInputEstimate ==
    /\ (mpc = "streaming" /\ out # <<>>)
           => out[1].input_tokens = Number(getTokenCount(openaiMessages).input)
    /\ (body.path = "count_tokens" /\ reply.type = "token_count")
           => reply.input_tokens = Number(getTokenCount(openaiMessages).input)

\* The positions in openaiMessages of the turns that come from message i of
\* the request, and the turns themselves, in order.
TurnPositions(i) == {k \in 1..Len(openaiMessages) : openaiMessages[k].source = i}
TurnsOf(i) == SelectSeq(openaiMessages, LAMBDA turn : turn.source = i)
Consecutive(positions) ==
    \A a, b \in positions : \A k \in a..b : k \in positions

\* The tool_use blocks of a message, in block order, and whether it has a
\* text block that is not empty.
ToolUsesOf(msg) == SelectSeq(msg.blocks, LAMBDA b : b.type = "tool_use")
HasText(msg) ==
    \E k \in 1..Len(msg.blocks) :
        msg.blocks[k].type = "text" /\ msg.blocks[k].text # ""

\* The turn carries one tool call per block of uses, with the block's id and
\* name, in the order of the blocks.
CarriesCalls(turn, uses) ==
    /\ Len(turn.tool_calls) = Len(uses)
    /\ \A k \in 1..Len(uses) :
          /\ turn.tool_calls[k].id = uses[k].id
          /\ turn.tool_calls[k].name = uses[k].name

\* C22: an assistant message with text that is not empty and with tool_use
\* blocks gives exactly two consecutive turns, an assistant turn with the text
\* and no tool calls, then an assistant turn with null content and all the
\* tool calls in block order; one with text only, or with tool_use blocks
\* only, gives exactly one turn.
C22_AssistantTextAndToolsSplitInTwo ==
    \A i \in 1..converted :
        LET msg == anthropicRequest.messages[i]
            turns == TurnsOf(i)
        IN  (msg.role = "assistant" /\ msg.kind = "array"
             /\ (HasText(msg) \/ ToolUsesOf(msg) # <<>>))
            => /\ Consecutive(TurnPositions(i))
               /\ \A k \in 1..Len(turns) : turns[k].role = "assistant"
               /\ IF HasText(msg) /\ ToolUsesOf(msg) # <<>>
                  THEN /\ Len(turns) = 2
                       /\ turns[1].content.kind = "string"
                       /\ turns[1].content.text # ""
                       /\ turns[1].tool_calls = <<>>
                       /\ turns[2].content = NullContent
                       /\ CarriesCalls(turns[2], ToolUsesOf(msg))
                  ELSE IF HasText(msg)
                       THEN /\ Len(turns) = 1
                            /\ turns[1].content.kind = "string"
                            /\ turns[1].content.text # ""
                            /\ turns[1].tool_calls = <<>>
                       ELSE /\ Len(turns) = 1
                            /\ turns[1].content = NullContent
                            /\ CarriesCalls(turns[1], ToolUsesOf(msg))

\* C22 witness: the second message of the request is an assistant message
\* with text and a tool_use block; it has been converted to the last two turns
\* of three.
C22_Witness ==
    /\ converted = 2
    /\ anthropicRequest.messages[2].role = "assistant"
    /\ anthropicRequest.messages[2].kind = "array"
    /\ HasText(anthropicRequest.messages[2])
    /\ ToolUsesOf(anthropicRequest.messages[2]) # <<>>
    /\ Len(openaiMessages) = 3
    /\ TurnPositions(2) = {2, 3}
    /\ openaiMessages[3].content = NullContent

\* The tool_result blocks of a message, in block order.
ToolResultsOf(msg) == SelectSeq(msg.blocks, LAMBDA b : b.type = "tool_result")

\* The text a tool turn carries for an array of result items: the items one
\* per line, a text item as its text, any other item as its JSON text.
ItemLines(items) ==
    Join([k \in 1..Len(items) |->
             IF items[k].type = "text" THEN items[k].text ELSE items[k].json],
         "\n")

\* C23: every tool_result block of a user message gives exactly one turn of
\* role tool with the block's tool_use_id, in block order; the turn's content
\* is the block's string, or for an array the items joined by newlines with
\* the text items unwrapped: [{type: text, text: "42"}, {k: 1}] gives
\* "42\n{\"k\":1}".
C23_OneToolTurnPerToolResult ==
    \A i \in 1..converted :
        LET msg == anthropicRequest.messages[i]
            results == ToolResultsOf(msg)
            toolTurns == SelectSeq(TurnsOf(i), LAMBDA turn : turn.role = "tool")
        IN  (msg.role = "user" /\ msg.kind = "array")
            => /\ Len(toolTurns) = Len(results)
               /\ \A k \in 1..Len(results) :
                     /\ toolTurns[k].tool_call_id = results[k].tool_use_id
                     /\ results[k].content.kind = "string"
                            => toolTurns[k].content
                                   = StringContent(results[k].content.text)
                     /\ results[k].content.kind = "array"
                            => toolTurns[k].content
                                   = StringContent(ItemLines(results[k].content.items))
                     /\ results[k].content
                            = ArrayResult(<<TextItem("42"), OtherItem("{\"k\":1}")>>)
                            => toolTurns[k].content.text = "42\n{\"k\":1}"

\* C23 witness: a user message with two tool_result blocks, the first one
\* with an array of a text item and another item, has been converted to two
\* tool turns in the order of the blocks.
C23_Witness ==
    /\ converted >= 1
    /\ Len(ToolResultsOf(anthropicRequest.messages[1])) = 2
    /\ ToolResultsOf(anthropicRequest.messages[1])[1].content.kind = "array"
    /\ Len(TurnsOf(1)) = 2
    /\ TurnsOf(1)[1].role = "tool"
    /\ TurnsOf(1)[1].tool_call_id = "toolu_1"
    /\ TurnsOf(1)[1].content.text = "42\n{\"k\":1}"
    /\ TurnsOf(1)[2].tool_call_id = "toolu_2"

\* The tool calls of type function of the response's first choice, in call
\* order, and whether the choice has text that is not empty.
FunctionCallsOf(response) ==
    IF response.has_choices /\ response.has_tool_calls
    THEN SelectSeq(response.tool_calls, LAMBDA call : call.type = "function")
    ELSE <<>>
HasContent(response) ==
    /\ response.has_choices
    /\ response.content # Null
    /\ response.content # ""

\* C24: the content of a translated response is never empty: one empty
\* text block when the response has no text and no function tool call, or no
\* choice; otherwise the text block, if there is text, followed by one tool_use
\* block per function tool call, in call order.
C24_ContentNeverEmpty ==
    anthropicResponse.done =>
        LET calls == FunctionCallsOf(openaiResponse)
            texts == IF HasContent(openaiResponse) THEN 1 ELSE 0
            content == anthropicResponse.content
        IN  /\ content # <<>>
            /\ IF texts = 0 /\ calls = <<>>
               THEN /\ Len(content) = 1
                    /\ content[1].type = "text"
                    /\ content[1].text = ""
               ELSE /\ Len(content) = texts + Len(calls)
                    /\ texts = 1 => /\ content[1].type = "text"
                                    /\ content[1].text = openaiResponse.content
                    /\ \A k \in 1..Len(calls) :
                          /\ content[texts + k].type = "tool_use"
                          /\ content[texts + k].id = calls[k].id
                          /\ content[texts + k].name = calls[k].name

\* C24 witness: a response with null content and one tool call that is not
\* of type function has been translated to one empty text block.
C24_Witness ==
    /\ anthropicResponse.done
    /\ openaiResponse.has_tool_calls
    /\ Len(openaiResponse.tool_calls) = 1
    /\ FunctionCallsOf(openaiResponse) = <<>>
    /\ openaiResponse.content = Null
    /\ Len(anthropicResponse.content) = 1
    /\ anthropicResponse.content[1].text = ""

\* The input the claim C25 gives for an arguments string: the parsed object
\* for the text of an object or array, {value: scalar} for the text of a
\* number or of null, {error_parsing_arguments: rawString} for text that is
\* not JSON.
InputFor(arguments) ==
    CASE arguments \in {"{}", "{\"a\":1}", "[1]"} ->
             [shape |-> "parsed", json |-> arguments]
      [] arguments \in {"7", "null"} -> [shape |-> "value", json |-> arguments]
      [] arguments \in {"{\"a\""} ->
             [shape |-> "error_parsing_arguments", json |-> arguments]

\* C25: whatever the arguments string of a function tool call, the
\* translation gives a tool_use block with the call's id and name; its input
\* is the parsed object, {value: scalar} for a parsed value that is no
\* object, {error_parsing_arguments: rawString} for a string that does not
\* parse.
C25_ArgumentsNeverFail ==
    anthropicResponse.done =>
        LET calls == FunctionCallsOf(openaiResponse)
            blocks == SelectSeq(anthropicResponse.content,
                                LAMBDA b : b.type = "tool_use")
        IN  /\ Len(blocks) = Len(calls)
            /\ \A k \in 1..Len(calls) :
                  /\ blocks[k].id = calls[k].id
                  /\ blocks[k].name = calls[k].name
                  /\ blocks[k].input = InputFor(calls[k].arguments)

\* C25 witness: a response with the arguments strings {"a":1}, null and [1]
\* in three calls has been translated to three tool_use blocks.
C25_Witness ==
    /\ anthropicResponse.done
    /\ Len(openaiResponse.tool_calls) = 3
    /\ openaiResponse.tool_calls[2].arguments = "null"
    /\ \E i \in 1..Len(anthropicResponse.content) :
          /\ anthropicResponse.content[i].id = "call_b"
          /\ anthropicResponse.content[i].input = [shape |-> "value", json |-> "null"]

\* The tool_use block of the request of a round trip: the only block of its
\* last message.
SentToolUse == Last(anthropicRequest.messages).blocks[1]

QuarterRoundedUp(n) == IF n % 4 = 0 THEN n \div 4 ELSE n \div 4 + 1

\* The tokens of a fragment: none for a fragment that is absent or empty.
FragmentTokens(fragment) ==
    IF fragment = Undefined \/ fragment = Null \/ fragment = "" THEN 0
    ELSE QuarterRoundedUp(Len(fragment))

\* The tokens of the argument fragments of a sequence of tool-call deltas.
RECURSIVE ArgumentTokens(_)
ArgumentTokens(tool_calls) ==
    IF tool_calls = <<>> THEN 0
    ELSE (IF ~Head(tool_calls).isNull /\ Head(tool_calls).function.defined
          THEN FragmentTokens(Head(tool_calls).function.arguments) ELSE 0)
         + ArgumentTokens(Tail(tool_calls))

\* The tokens of the text fragment and of the argument fragments of the
\* first n consumed chunks.
RECURSIVE ConsumedTokens(_)
ConsumedTokens(n) ==
    IF n = 0 THEN 0
    ELSE ConsumedTokens(n - 1)
         + (IF ReadsChoice(consumed[n]) /\ ChoiceOf(consumed[n]).has_delta
            THEN FragmentTokens(ChoiceOf(consumed[n]).delta.content)
                 + (IF ChoiceOf(consumed[n]).delta.has_tool_calls
                    THEN ArgumentTokens(ChoiceOf(consumed[n]).delta.tool_calls)
                    ELSE 0)
            ELSE 0)

\* C30: output_tokens of message_delta is the sum of ceil(length / 4) over
\* the text fragments and the tool-argument fragments that are not empty, of
\* all chunks consumed up to and including the finishing one, whether or not
\* the tool block of a fragment was ever started; the count is that sum all
\* along, it never decreases, and it is 0 when no such fragment was consumed.
C30_OutputTokensSumOfFragments ==
    /\ [](loopExit # "threw" => outputTokenCount = ConsumedTokens(Len(consumed)))
    /\ [](EndedNormally =>
             /\ Count("message_delta") = 1
             /\ \A i \in Positions("message_delta") :
                   out[i].output_tokens = ConsumedTokens(Len(consumed)))
    /\ [][outputTokenCount' >= outputTokenCount]_vars

\* C30 witness: the stream ended normally without any text delta and without
\* any tool block started, and message_delta counts the tokens of argument
\* fragments all the same.
C30_Witness ==
    /\ EndedNormally
    /\ ToolStarts = {}
    /\ TextStarts = {}
    /\ Len(consumed) >= 2
    /\ \E i \in Positions("message_delta") : out[i].output_tokens >= 2


(***************************************************************************)
(* C31: the order of the content_block_stop events after the loop.         *)
(***************************************************************************)
\* C31 as stated: the blocks are stopped in the order in which they were
\* started, also when a tool block was started before the text block: of
\* two content_block_start events, the stop of the earlier one's index
\* comes before the stop of the later one's index.
C31_StopOrderIsStartOrder ==
    \A i, j \in BlockStarts :
        i < j => \A a \in StopsAfter(i), b \in StopsAfter(j) : a < b

\* C31, amended: after a loop that ended without an exception every started
\* block is stopped; the stop of the text block comes before the stop of
\* every tool block, whichever was started first, and the tool blocks are
\* stopped in the order in which they were started.
C31_TextStopThenToolStopsInStartOrder ==
    /\ EndedNormally => \A i \in BlockStarts : StopsAfter(i) # {}
    /\ \A i \in TextStarts, j \in ToolStarts :
           \A a \in StopsAfter(i), b \in StopsAfter(j) : a < b
    /\ \A i, j \in ToolStarts :
           i < j => \A a \in StopsAfter(i), b \in StopsAfter(j) : a < b

\* Two tool blocks were started, then the text block, and all were stopped.
C31_Witness ==
    /\ EndedNormally
    /\ \E i, j \in ToolStarts, k \in TextStarts :
           /\ i < j /\ j < k
           /\ StopsAfter(i) # {} /\ StopsAfter(j) # {} /\ StopsAfter(k) # {}


(***************************************************************************)
(* C32: the deltas of the chunk that carries the finish reason.            *)
(***************************************************************************)
\* The tool-call deltas of the chunk consumed last that name a concrete id
\* and a name.
NamedToolDeltas(choice) ==
    IF ~choice.delta.has_tool_calls THEN {}
    ELSE { choice.delta.tool_calls[k] : k \in
             { k \in 1..Len(choice.delta.tool_calls) :
                 LET d == choice.delta.tool_calls[k]
                 IN  /\ ~d.isNull
                     /\ Truthy(d.id) /\ ~StartsWith(d.id, "tool_ph_")
                     /\ d.function.defined /\ Truthy(d.function.name) } }

\* C32: in the step that leaves the loop on a finish reason, the text and
\* the tool-call deltas of that same chunk have been handled: its text is
\* emitted as a text_delta of a started text block, and each of its tool
\* calls with a concrete id and a name has its content_block_start on the
\* wire and its argument fragment emitted after it, all in that step and so
\* before the closing events.
C32_FinishingChunkDeltasProcessed ==
    [][ (loopExit = "none" /\ loopExit' = "break") =>
          LET choice == ChoiceOf(Last(consumed'))
              fresh == (Len(out) + 1)..Len(out')
          IN  /\ Truthy(choice.delta.content) =>
                   \E i \in fresh :
                      /\ out'[i].type = "content_block_delta"
                      /\ out'[i].block = "text_delta"
                      /\ out'[i].text = choice.delta.content
                      /\ \E j \in 1..(i - 1) :
                            /\ out'[j].type = "content_block_start"
                            /\ out'[j].block = "text"
                            /\ out'[j].index = out'[i].index
              /\ \A d \in NamedToolDeltas(choice) :
                   \E j \in 1..Len(out') :
                      /\ out'[j].type = "content_block_start"
                      /\ out'[j].block = "tool_use"
                      /\ out'[j].id = d.id
                      /\ out'[j].name = d.function.name
                      /\ Truthy(d.function.arguments) =>
                            \E i \in fresh :
                               /\ j < i
                               /\ out'[i].type = "content_block_delta"
                               /\ out'[i].block = "input_json_delta"
                               /\ out'[i].index = out'[j].index
                               /\ out'[i].text = d.function.arguments
      ]_vars

\* The loop was left on a chunk that carried a text delta and a tool-call
\* delta next to its finish reason, and the stream was closed after it.
C32_Witness ==
    /\ EndedNormally /\ loopExit = "break"
    /\ Truthy(ChoiceOf(Last(consumed)).delta.content)
    /\ NamedToolDeltas(ChoiceOf(Last(consumed))) # {}
    /\ \E i \in Positions("content_block_delta") :
          out[i].text = ChoiceOf(Last(consumed)).delta.content


(***************************************************************************)
(* C33: deltas lie between the start and the stop of their block.          *)
(***************************************************************************)
\* C33: in every stream, however it ends, every content_block_delta comes
\* after a content_block_start with its index and of its kind of block, and
\* no content_block_stop with its index comes before it: no delta is emitted
\* for an index that was never started or was already stopped.
C33_DeltasBetweenStartAndStop ==
    \A j \in Positions("content_block_delta") :
        /\ \E i \in BlockStarts :
              /\ i < j
              /\ out[i].index = out[j].index
              /\ out[i].block =
                    (IF out[j].block = "text_delta" THEN "text" ELSE "tool_use")
        /\ \A k \in Positions("content_block_stop") :
              out[k].index = out[j].index => j < k

\* A closed stream with a text delta and an argument delta, each followed by
\* the stop of its block, and with a tool block that received arguments and
\* was never started.
C33_Witness ==
    /\ EndedNormally
    /\ \E i, j \in Positions("content_block_delta") :
          /\ out[i].block = "text_delta"
          /\ out[j].block = "input_json_delta"
          /\ \E k \in Positions("content_block_stop") : out[k].index = out[i].index
          /\ \E k \in Positions("content_block_stop") : out[k].index = out[j].index
    /\ \E k \in DOMAIN openaiToolIdxToAnthropicBlockIdx :
          /\ ~Has(sentToolBlockStarts, openaiToolIdxToAnthropicBlockIdx[k])
          /\ ReceivedArguments(k, Len(consumed)) # ""


(***************************************************************************)
(* C34: tool blocks that never become startable.                           *)
(***************************************************************************)
\* The tool-call deltas for source tool index k that the loop has handled.
DeltasFor(k) ==
    UNION { { ChoiceOf(consumed[n]).delta.tool_calls[m] :
                m \in { m \in 1..Len(ChoiceOf(consumed[n]).delta.tool_calls) :
                          LET d == ChoiceOf(consumed[n]).delta.tool_calls[m]
                          IN  ~d.isNull /\ d.index = k } } :
            n \in { n \in 1..Len(consumed) :
                      /\ ReadsChoice(consumed[n])
                      /\ ChoiceOf(consumed[n]).has_delta
                      /\ ChoiceOf(consumed[n]).delta.has_tool_calls } }

\* A concrete id, and a non-empty name, has arrived for source tool index k.
ConcreteIdArrived(k) ==
    \E d \in DeltasFor(k) : Truthy(d.id) /\ ~StartsWith(d.id, "tool_ph_")
NameArrived(k) ==
    \E d \in DeltasFor(k) : d.function.defined /\ Truthy(d.function.name)

\* The source tool indices seen so far for which the concrete id or the
\* name is still missing.
NeverStartable ==
    { k \in 0..1 : DeltasFor(k) # {} /\ ~(ConcreteIdArrived(k) /\ NameArrived(k)) }

\* C34: a tool block whose concrete id or non-empty name has not arrived,
\* and so also one for which it never arrives before the stream ends, has
\* no event on the wire (no content_block_start, content_block_delta or
\* content_block_stop carries its index), yet it holds a destination index
\* of its own: one below the counter that no other block has.
C34_UnstartedToolBlockSilentButIndexed ==
    \A k \in NeverStartable :
        /\ k \in DOMAIN openaiToolIdxToAnthropicBlockIdx
        /\ LET b == openaiToolIdxToAnthropicBlockIdx[k]
           IN  /\ \A i \in 1..Len(out) : out[i].index # b
               /\ b \in 0..(nextAnthropicBlockIdx - 1)
               /\ textBlockAnthropicIdx # b
               /\ \A other_k \in DOMAIN openaiToolIdxToAnthropicBlockIdx :
                      other_k # k => openaiToolIdxToAnthropicBlockIdx[other_k] # b

\* A closed stream whose first tool block never got its id and name while
\* arguments arrived for it: index 0 is not on the wire, index 1 is.
C34_Witness ==
    /\ EndedNormally
    /\ \E k \in NeverStartable :
          /\ openaiToolIdxToAnthropicBlockIdx[k] = 0
          /\ ReceivedArguments(k, Len(consumed)) # ""
    /\ \A i \in 1..Len(out) : out[i].index # 0
    /\ \E i \in BlockStarts : out[i].index = 1
    /\ \E i \in Positions("content_block_stop") : out[i].index = 1


(***************************************************************************)
(* Properties of the token refresh.                                        *)
(***************************************************************************)
\* C35: after any sequence of setupCopilotToken calls, overlapping ones
\* included, at most one refresh interval is active, and it is the one
\* whose id refreshIntervalId holds: every interval created earlier has
\* been cleared.
C35_AtMostOneIntervalActive ==
    /\ Cardinality(timers) <= 1
    /\ timers \subseteq {refreshIntervalId}


\* The runs of the interval callback that ended in the catch block.
CaughtCallbacks == {n \in DOMAIN callbacks : callbacks[n].status = "caught"}

\* C36: a failed refresh in the interval callback does not stop the interval
\* and does not propagate: the callback returns from its catch block, the
\* interval stays active, refreshIntervalId and the previous copilotToken are
\* left as they were, and the count of failures goes up by one, or back to 0
\* when it reaches MAX_REFRESH_FAILURES.  Every successful refresh sets the
\* count to 0.  Whenever no callback is in the middle of a step the count
\* lies in 0..MAX_REFRESH_FAILURES - 1.
C36_FailedRefreshKeepsIntervalAndToken ==
    /\ [](refreshFailureCount \in 0..(MAX_REFRESH_FAILURES - 1))
    /\ [][ \A n \in DOMAIN callbacks :
              /\ (callbacks[n].status = "awaiting"
                    /\ callbacks'[n].status # "awaiting")
                 => callbacks'[n].status \in {"refreshed", "caught"}
              /\ (callbacks[n].status = "awaiting"
                    /\ callbacks'[n].status = "caught")
                 => /\ timers' = timers
                    /\ refreshIntervalId' = refreshIntervalId
                    /\ copilotToken' = copilotToken
                    /\ refreshFailureCount' =
                          (IF refreshFailureCount = MAX_REFRESH_FAILURES - 1
                           THEN 0 ELSE refreshFailureCount + 1)
              /\ (callbacks[n].status = "awaiting"
                    /\ callbacks'[n].status = "refreshed")
                 => refreshFailureCount' = 0
       ]_vars

\* After one call of setupCopilotToken three refreshes have failed and none
\* has succeeded: the count has been reset at the third failure, the token
\* is the one the setup stored, and the interval is still active.
C36_Witness ==
    /\ Len(setups) = 1
    /\ Cardinality(CaughtCallbacks) = MAX_REFRESH_FAILURES
    /\ Len(callbacks) = MAX_REFRESH_FAILURES
    /\ refreshFailureCount = 0
    /\ copilotToken \in Tokens
    /\ refreshIntervalId \in timers

====
